---- MODULE Spec2Model ----
(***************************************************************************)
(* CursorFocus: the source analyzer (analyzers.py), the report generator   *)
(* (content_generator.py), the configuration tables (config.py), project   *)
(* detection and scanning (project_detector.py), the rules analyzer,       *)
(* generator and watcher (rules_analyzer.py, rules_generator.py,           *)
(* rules_watcher.py), the monitoring loop (focus.py), the updater          *)
(* (auto_updater.py) and the project set-up (setup.py).                    *)
(*                                                                         *)
(* A file text is a sequence of lexical tokens; the token "\n" separates   *)
(* lines.  White space inside a line is not represented: a line is the     *)
(* sequence of its tokens, so str.strip() of a line is the line itself and *)
(* str.strip() of a text removes its leading and trailing "\n" tokens.     *)
(***************************************************************************)
EXTENDS Integers, Sequences, FiniteSets, TLC

\* ------------------------------------------------------------------------
\* Bounds of the model
\* ------------------------------------------------------------------------
MaxLines == 4
MaxLineCount == 900
MaxCalls == 2
MaxTime == 2
MaxScanCalls == 3
MaxClock == 600
MaxDisk == 1
MaxInvocations == 3
MaxWatchSeconds == 10
MaxCycles == 3
MaxTreeChanges == 1
MaxRegenerations == 3
MaxChecks == 3
MaxRuleUpdates == 1
MaxScanDepth == 2
MaxObservers == 3
MaxProjects == 4
MaxUpdaterDays == 2

\* ------------------------------------------------------------------------
\* State
\* ------------------------------------------------------------------------
\* The analyzer run on one file: the text, the file it is read from, the
\* step, and what find_duplicate_functions and analyze_file_content gave
VARIABLES file_text, analyzed_file, pc, function_lines, duplicate_map, analysis

analyzerVars == <<file_text, analyzed_file, pc, function_lines, duplicate_map, analysis>>

\* A file growing under the length check: its extension, the configured
\* file_length_standards and file_length_thresholds, its line count and
\* what get_file_length_alert gave
VARIABLES alert_ext, length_standards, length_thresholds, alert_lines, length_alert

alertVars == <<alert_ext, length_standards, length_thresholds, alert_lines, length_alert>>

\* The report generator run on a project directory: the paths that exist
\* under the project directory, what json.load does on its package.json,
\* the order os.listdir gives names in, the loaded configuration, the
\* clock, the ProjectMetrics object of the last call of
\* generate_focus_content, the texts the calls returned and the exception
\* the last call left to its caller
VARIABLES project_files, package_json, listdir_order, focus_config, now,
          metrics, reports, focus_error

reportVars ==
    <<project_files, package_json, listdir_order, focus_config, now, metrics,
      reports, focus_error>>

\* detect_project_type run on a directory: the directory and what the call
\* gave
VARIABLES detect_dir, detected

detectVars == <<detect_dir, detected>>

\* scan_for_projects: the module-level _scan_cache, time.time() in seconds,
\* the state of the directories on disk, the number of runs of _do_scan
\* and the last call: its number, arguments and return value
VARIABLES scan_cache, clock, disk, scans, scan_call

scanVars == <<scan_cache, clock, disk, scans, scan_call>>

\* RulesAnalyzer(project_path).analyze_project_for_rules(): the project
\* directory and what the last call gave
VARIABLES rules_dir, rules_info

rulesVars == <<rules_dir, rules_info>>

\* One RulesWatcher: time.time() in seconds, self.last_update, the calls
\* of generate_rules_file it made (the time and the event of each) and the
\* exception the last on_modified left to the observer
VARIABLES watch_clock, last_update, invocations, watch_error, last_event

watchVars ==
    <<watch_clock, last_update, invocations, watch_error, last_event>>

\* The loop of focus.py: what main() meets on the disk (config.json, the
\* project directory, the Focus file and the logs directory), the state of
\* the project tree and the number of times it changed, the cycles done,
\* the Focus file and the times it was written, the lines of the error log
\* and the exception that ended the loop
VARIABLES loop_env, project_tree, tree_changes, cycles, focus_file,
          focus_writes, error_log, loop_error

loopVars ==
    <<loop_env, project_tree, tree_changes, cycles, focus_file, focus_writes,
      error_log, loop_error>>

\* One RulesGenerator: what it is called with and finds on the disk, the
\* clock, the template object of the last call as _customize_template
\* left it, and the documents written to .cursorrules
VARIABLES gen_inputs, gen_clock, gen_template, rules_files

genVars == <<gen_inputs, gen_clock, gen_template, rules_files>>

\* The updater: the clock in ticks, the .last_update_check and version.txt
\* files, the calls of check_for_updates made so far, the state of the
\* installed items, whether update.zip and the temp directory exist, and
\* what the last call of update returned
VARIABLES upd_now, last_check_file, version_txt, checks, installed,
          update_zip, temp_dir, update_returned

updaterVars ==
    <<upd_now, last_check_file, version_txt, checks, installed, update_zip,
      temp_dir, update_returned>>

\* _do_scan on a tree of directories: what each directory holds, the
\* max_depth of the call, and the list of projects it returned
VARIABLES dir_tree, tree_depth, tree_scan

treeVars == <<dir_tree, tree_depth, tree_scan>>

\* A ProjectWatcherManager: its observers, watchers and Observer objects,
\* and the last call made on it with the manager as it was before
VARIABLES manager, manager_call

managerVars == <<manager, manager_call>>

\* setup.py run again and again: the projects of config.json, and the
\* last run with the projects as they were before it
VARIABLES config_projects, setup_call

setupVars == <<config_projects, setup_call>>

vars ==
    <<analyzerVars, alertVars, reportVars, detectVars, scanVars, rulesVars,
      watchVars, loopVars, genVars, updaterVars, treeVars, managerVars,
      setupVars>>

\* what the steps of one part leave alone
outsideAnalyzer ==
    <<alertVars, reportVars, detectVars, scanVars, rulesVars, watchVars,
      loopVars, genVars, updaterVars, treeVars, managerVars, setupVars>>
outsideAlert ==
    <<analyzerVars, reportVars, detectVars, scanVars, rulesVars, watchVars,
      loopVars, genVars, updaterVars, treeVars, managerVars, setupVars>>
outsideReport ==
    <<analyzerVars, alertVars, detectVars, scanVars, rulesVars, watchVars,
      loopVars, genVars, updaterVars, treeVars, managerVars, setupVars>>
outsideDetect ==
    <<analyzerVars, alertVars, reportVars, scanVars, rulesVars, watchVars,
      loopVars, genVars, updaterVars, treeVars, managerVars, setupVars>>
outsideScan ==
    <<analyzerVars, alertVars, reportVars, detectVars, rulesVars, watchVars,
      loopVars, genVars, updaterVars, treeVars, managerVars, setupVars>>
outsideRules ==
    <<analyzerVars, alertVars, reportVars, detectVars, scanVars, watchVars,
      loopVars, genVars, updaterVars, treeVars, managerVars, setupVars>>
outsideLoop ==
    <<analyzerVars, alertVars, reportVars, detectVars, scanVars, rulesVars,
      watchVars, genVars, updaterVars, treeVars, managerVars, setupVars>>
outsideGen ==
    <<analyzerVars, alertVars, reportVars, detectVars, scanVars, rulesVars,
      watchVars, loopVars, updaterVars, treeVars, managerVars, setupVars>>
outsideWatch ==
    <<analyzerVars, alertVars, reportVars, detectVars, scanVars, rulesVars,
      loopVars, genVars, updaterVars, treeVars, managerVars, setupVars>>
outsideUpdater ==
    <<analyzerVars, alertVars, reportVars, detectVars, scanVars, rulesVars,
      watchVars, loopVars, genVars, treeVars, managerVars, setupVars>>
outsideTree ==
    <<analyzerVars, alertVars, reportVars, detectVars, scanVars, rulesVars,
      watchVars, loopVars, genVars, updaterVars, managerVars, setupVars>>
outsideManager ==
    <<analyzerVars, alertVars, reportVars, detectVars, scanVars, rulesVars,
      watchVars, loopVars, genVars, updaterVars, treeVars, setupVars>>
outsideSetup ==
    <<analyzerVars, alertVars, reportVars, detectVars, scanVars, rulesVars,
      watchVars, loopVars, genVars, updaterVars, treeVars, managerVars>>

\* ------------------------------------------------------------------------
\* config.py: the tables
\* ------------------------------------------------------------------------
BINARY_EXTENSIONS ==
    {".png", ".jpg", ".jpeg", ".gif", ".ico", ".pdf", ".exe", ".bin"}

NON_CODE_EXTENSIONS ==
    {".md", ".txt", ".log", ".json", ".yaml", ".yml", ".toml", ".ini", ".cfg",
     ".conf", ".config", ".markdown", ".rst", ".rdoc", ".csv", ".tsv"}

CODE_EXTENSIONS ==
    {".js", ".jsx", ".ts", ".tsx", ".py", ".java", ".cpp", ".c", ".h",
     ".hpp", ".cs", ".go", ".rb", ".php", ".phtml", ".ctp",
     ".swift", ".kt", ".kts", ".lua"}

IGNORED_KEYWORDS ==
    {"if", "switch", "while", "for", "catch", "finally", "else", "return",
     "break", "continue", "case", "default", "to", "from", "import", "as",
     "try", "except", "raise", "with", "async", "await", "yield", "assert",
     "pass", "del", "print", "in", "is", "not", "and", "or", "lambda",
     "global", "nonlocal", "class", "def", "n", "lines", "directly"}

\* ------------------------------------------------------------------------
\* Tokens and the texts the analyzer is run on
\* ------------------------------------------------------------------------
NL == "\n"

\* [a-zA-Z_]\w* : the tokens an identifier group of a pattern can capture
Identifiers ==
    {"function", "getUser", "run", "int", "if", "IF",
     "Adds", "two", "numbers", "and", "returns", "short", "a"}

\* \([^)]*\) followed by { or ; : the tokens that end a declaration head
ParameterLists == {"(){}", "();", "(x){", "(char**argv){}"}

\* The lines a text is made of.
LineSet ==
    { <<"function", "getUser", "(){}">>,
      <<"getUser", "();">>,
      <<"IF", "(x){">>,
      <<"if", "(x){">>,
      <<"/**">>,
      <<"*", "Adds", "two", "numbers", "and", "returns">>,
      <<"*/">>,
      <<"*", "@param", "a">>,
      <<"//", "Adds", "two", "numbers", "and", "returns">>,
      <<"//", "short">>,
      <<"x=1;">>,
      << >>,
      <<"int", "run", "(char**argv){}">> }

RECURSIVE JoinLines(_)
\* '\n'.join(lines): how a text is laid out from its lines
JoinLines(ls) ==
    IF Len(ls) = 0 THEN << >>
    ELSE IF Len(ls) = 1 THEN ls[1]
    ELSE ls[1] \o <<NL>> \o JoinLines(Tail(ls))

\* the texts of n lines
Texts(n) == { JoinLines(ls) : ls \in [1..n -> LineSet] }

\* ------------------------------------------------------------------------
\* Primitives of str and re on token sequences
\* ------------------------------------------------------------------------
\* str.lower() of an identifier
Lower(name) ==
    CASE name = "IF" -> "if"
      [] name = "getUser" -> "getuser"
      [] name = "Adds" -> "adds"
      [] OTHER -> name

RECURSIVE Split(_)
\* text.split('\n'): the lines of a text; a text without "\n" is one line
Split(toks) ==
    IF \A i \in 1..Len(toks) : toks[i] # NL THEN <<toks>>
    ELSE LET k == CHOOSE i \in 1..Len(toks) :
                     toks[i] = NL /\ \A j \in 1..(i-1) : toks[j] # NL
         IN  <<SubSeq(toks, 1, k-1)>> \o Split(SubSeq(toks, k+1, Len(toks)))

RECURSIVE Strip(_)
\* text.strip(): without the leading and trailing white space
Strip(toks) ==
    IF toks = << >> THEN toks
    ELSE IF Head(toks) = NL THEN Strip(Tail(toks))
    ELSE IF toks[Len(toks)] = NL THEN Strip(SubSeq(toks, 1, Len(toks)-1))
    ELSE toks

\* seq[-n:]
LastN(seq, n) ==
    IF Len(seq) <= n THEN seq ELSE SubSeq(seq, Len(seq)-n+1, Len(seq))

RECURSIVE Flatten(_)
\* ' '.join(list of lines): the words of all lines, in order
Flatten(ls) ==
    IF ls = << >> THEN << >> ELSE Head(ls) \o Flatten(Tail(ls))

RECURSIVE NextToken(_, _)
\* \s* and \s+ of the patterns: the index of the first token at or after i
\* that is not white space (Len+1 when there is none)
NextToken(toks, i) ==
    IF i > Len(toks) THEN i
    ELSE IF toks[i] = NL THEN NextToken(toks, i+1)
    ELSE i

\* ------------------------------------------------------------------------
\* config.py FUNCTION_PATTERNS and analyzers.get_combined_pattern:
\* re.finditer(combined_pattern, text).  A match is [start, name]: the index
\* of its first token and the first non-None group.
\* ------------------------------------------------------------------------
RECURSIVE finditer(_, _)
finditer(toks, i) ==
    IF i > Len(toks) THEN << >>
    ELSE IF toks[i] = NL THEN finditer(toks, i+1)
    ELSE
      LET j == NextToken(toks, i+1)
          k == NextToken(toks, j+1)
      IN  \* 'standard': function\s+([a-zA-Z_]\w*)
          IF toks[i] = "function" /\ j <= Len(toks) /\ toks[j] \in Identifiers
          THEN <<[start |-> i, name |-> toks[j]]>> \o finditer(toks, j+1)
          \* 'class_method', 'c_function': ([a-zA-Z_]\w*)\s*\([^)]*\)\s*{ or ;
          ELSE IF toks[i] \in Identifiers /\ j <= Len(toks)
                  /\ toks[j] \in ParameterLists
          THEN <<[start |-> i, name |-> toks[i]]>> \o finditer(toks, j+1)
          \* 'cpp_function', 'c_function' with the optional leading word:
          \* (?:\w+\s+)?([a-zA-Z_]\w*)\s*\([^)]*\)
          ELSE IF toks[i] \in Identifiers /\ j <= Len(toks)
                  /\ toks[j] \in Identifiers
                  /\ k <= Len(toks) /\ toks[k] \in ParameterLists
          THEN <<[start |-> i, name |-> toks[j]]>> \o finditer(toks, k+1)
          ELSE finditer(toks, i+1)

\* (a slip: the stoplist test without .lower())
IsFunctionNameCaseSensitive(name) == name \notin IGNORED_KEYWORDS

\* the test of both passes:
\* func_name and func_name.lower() not in IGNORED_KEYWORDS
IsFunctionName(name) == Lower(name) \notin IGNORED_KEYWORDS

\* ------------------------------------------------------------------------
\* analyzers.find_duplicate_functions
\* ------------------------------------------------------------------------
\* The recordings of one line, appended to function_lines
RECURSIVE RecordLine(_, _, _)
RecordLine(fl, matches, i) ==
    IF matches = << >> THEN fl
    ELSE LET name == Head(matches).name
             fl1 == IF IsFunctionName(name)
                    THEN IF name \in DOMAIN fl
                         THEN [fl EXCEPT ![name] = Append(@, i)]
                         ELSE fl @@ (name :> <<i>>)
                    ELSE fl
         IN  RecordLine(fl1, Tail(matches), i)

RECURSIVE RecordLines(_, _, _)
\* for i, line in enumerate(content.split('\n'), 1)
RecordLines(fl, lines, i) ==
    IF i > Len(lines) THEN fl
    ELSE RecordLines(RecordLine(fl, finditer(lines[i], 1), i), lines, i+1)

EmptyMap == [n \in {} |-> << >>]

\* function_lines at the end of the first loop
FunctionLines(content) == RecordLines(EmptyMap, Split(content), 1)

\* (a slip: the last recorded line instead of the first)
DuplicateEntryLast(lines) == <<lines[Len(lines)], Len(lines)>>

\* duplicates[func_name] = (lines[0], len(lines))
DuplicateEntry(lines) == <<lines[1], Len(lines)>>

\* the second loop, over function_lines
DuplicatesOf(fl) ==
    [n \in {m \in DOMAIN fl : Len(fl[m]) > 1} |-> DuplicateEntry(fl[n])]

find_duplicate_functions(content) == DuplicatesOf(FunctionLines(content))

\* ------------------------------------------------------------------------
\* analyzers.parse_comments
\* ------------------------------------------------------------------------
\* the prefixes of a token that the code tests with str.startswith
PrefixesOf(tok) ==
    CASE tok = "/**" -> {"/", "/*", "/**"}
      [] tok = "*/"  -> {"*", "*/"}
      [] tok = "*"   -> {"*"}
      [] tok = "//"  -> {"/", "//"}
      [] tok = "@param" -> {"@", "@param"}
      [] OTHER       -> {tok}

\* line.startswith(p), line being stripped
StartsWith(line, p) == line # << >> /\ p \in PrefixesOf(Head(line))

RECURSIVE LStrip(_, _)
\* line.lstrip(chars).strip(): without the leading tokens made of chars only
LStrip(line, chars) ==
    IF line # << >> /\ Head(line) \in chars THEN LStrip(Tail(line), chars)
    ELSE line

RECURSIVE ParseBackward(_, _, _, _)
\* for line in reversed(content_lines): i is the line looked at,
\* description and in_comment_block the loop's variables
ParseBackward(lines, i, description, in_comment_block) ==
    IF i < 1 THEN description
    ELSE
      LET line == lines[i]
      IN  IF StartsWith(line, "/**")
          THEN ParseBackward(lines, i-1, description, TRUE)
          ELSE IF StartsWith(line, "*/")
          THEN ParseBackward(lines, i-1, description, in_comment_block)
          ELSE IF in_comment_block /\ StartsWith(line, "*")
          THEN LET cleaned_line == LStrip(line, {"*", "**"})
               IN  IF cleaned_line # << >> /\ ~StartsWith(cleaned_line, "@")
                   THEN ParseBackward(lines, i-1, <<cleaned_line>> \o description,
                                      in_comment_block)
                   ELSE ParseBackward(lines, i-1, description, in_comment_block)
          ELSE IF StartsWith(line, "//")
          THEN LET cleaned_line == LStrip(line, {"/", "//"})
               IN  IF cleaned_line # << >>
                   THEN ParseBackward(lines, i-1, <<cleaned_line>> \o description,
                                      in_comment_block)
                   ELSE ParseBackward(lines, i-1, description, in_comment_block)
          ELSE IF line # << >> /\ ~StartsWith(line, "/*") /\ ~in_comment_block
          THEN description
          ELSE ParseBackward(lines, i-1, description, in_comment_block)

parse_comments(content_lines) ==
    ParseBackward(content_lines, Len(content_lines), << >>, FALSE)

\* ------------------------------------------------------------------------
\* analyzers.extract_function_context
\* ------------------------------------------------------------------------
\* Parameter lists whose parameter name, put into the @param search pattern
\* unescaped, is not a regular expression ("char **argv": multiple repeat)
BadPatternParameters == {"(char**argv){}"}

\* re.search(r'\((.*?)\)', context): the first parameter list at or after
\* the match start
RECURSIVE FirstParameterList(_, _)
FirstParameterList(toks, i) ==
    IF i > Len(toks) THEN "none"
    ELSE IF toks[i] \in ParameterLists THEN toks[i]
    ELSE FirstParameterList(toks, i+1)

\* [raised, text]: re.error escapes, or the description string is returned
extract_function_context(content, start_pos) ==
    IF FirstParameterList(content, start_pos) \in BadPatternParameters
    THEN [raised |-> "re.error", text |-> "none"]
    ELSE [raised |-> "none", text |-> "context_description"]

\* ------------------------------------------------------------------------
\* analyzers.analyze_file_content: the description of one match
\* ------------------------------------------------------------------------
\* re.findall('[A-Z][a-z]*|[a-z]+', func_name)
NameParts(name) ==
    CASE name = "getUser" -> <<"get", "User">>
      [] name = "IF" -> <<"I", "F">>
      [] OTHER -> <<name>>

LowerWord(w) ==
    CASE w = "User" -> "user" [] w = "I" -> "i" [] w = "F" -> "f" [] OTHER -> w

\* the verb chain: the words put before " | context_description"
VerbPhrase(name) ==
    LET name_parts == NameParts(name)
        verb == LowerWord(name_parts[1])
        subject == [i \in 1..(Len(name_parts)-1) |-> LowerWord(name_parts[i+1])]
    IN  IF verb \in {"is", "has", "should", "can", "will"}
        THEN <<"Validates", "if">> \o subject \o <<"meets", "criteria", "|">>
        ELSE IF verb \in {"get", "fetch", "retrieve"}
        THEN <<"Retrieves">> \o subject \o <<"data", "|">>
        ELSE IF verb \in {"set", "update", "modify"}
        THEN <<"Updates">> \o subject \o <<"|">>
        ELSE IF verb \in {"calc", "compute", "calculate"}
        THEN <<"Calculates">> \o subject \o <<"|">>
        ELSE IF verb \in {"handle", "process"}
        THEN <<"Processes">> \o subject \o <<"|">>
        ELSE IF verb \in {"validate", "verify"}
        THEN <<"Validates">> \o subject \o <<"|">>
        ELSE IF verb \in {"create", "init", "initialize"}
        THEN <<"Creates">> \o subject \o <<"|">>
        ELSE IF verb \in {"sort", "order"}
        THEN <<"Sorts">> \o subject \o <<"|">>
        ELSE << >>

\* content[:start].strip().split('\n')[-10:]
CommentBlock(content, start) ==
    LastN(Split(Strip(SubSeq(content, 1, start-1))), 10)

\* not description or len(description[0].split()) < 5
UsesFallback(description) ==
    description = << >> \/ Len(description[1]) < 5

NoAlert == [count |-> 0, first_line |-> 0]

\* first_line, count = duplicates[func_name], formatted into the suffix
\* "Function appears {count} times (first occurrence: line {first_line})"
DuplicateAlert(entry) == [count |-> entry[2], first_line |-> entry[1]]

\* One iteration of the loop over the matches, for a match that is kept:
\* [raised, entry], entry being (func_name, final_description)
DescribeMatch(content, m, duplicates) ==
    LET description == parse_comments(CommentBlock(content, m.start))
        ctx == extract_function_context(content, m.start)
        alert == IF m.name \in DOMAIN duplicates
                 THEN DuplicateAlert(duplicates[m.name])
                 ELSE NoAlert
    IN  IF UsesFallback(description)
        THEN IF ctx.raised # "none"
             THEN [raised |-> ctx.raised, entry |-> << >>]
             ELSE [raised |-> "none",
                   entry |-> <<m.name,
                               [text |-> VerbPhrase(m.name) \o <<ctx.text>>,
                                alert |-> alert]>>]
        ELSE [raised |-> "none",
              entry |-> <<m.name,
                          [text |-> Flatten(description),
                           alert |-> alert]>>]

\* ------------------------------------------------------------------------
\* analyzers.is_binary_file, analyzers.analyze_file_content
\* ------------------------------------------------------------------------
\* os.path.splitext(filename)[1].lower() is the ext field of a file
is_binary_file(ext) ==
    IF ext \in BINARY_EXTENSIONS THEN TRUE ELSE ext \in NON_CODE_EXTENSIONS

RECURSIVE AnalyzeMatches(_, _, _, _)
\* for match in matches: functions is the list built so far
AnalyzeMatches(content, matches, duplicates, functions) ==
    IF matches = << >> THEN [raised |-> "none", functions |-> functions]
    ELSE IF ~IsFunctionName(Head(matches).name)
    THEN AnalyzeMatches(content, Tail(matches), duplicates, functions)
    ELSE LET d == DescribeMatch(content, Head(matches), duplicates)
         IN  IF d.raised # "none"
             THEN [raised |-> d.raised, functions |-> << >>]
             ELSE AnalyzeMatches(content, Tail(matches), duplicates,
                                 Append(functions, d.entry))

\* (a slip: content.count('\n') for the number of lines)
LineCountNewlines(content) ==
    Cardinality({i \in DOMAIN content : content[i] = NL})

\* len(content.split('\n'))
LineCount(content) == Len(Split(content))

\* the body of the try block: [raised, functions, line_count]
AnalyzeBody(file, content) ==
    IF is_binary_file(file.ext)
    THEN [raised |-> "none", functions |-> << >>, line_count |-> 0]
    ELSE IF file.read # "ok"
    THEN [raised |-> file.read, functions |-> << >>, line_count |-> 0]
    ELSE IF file.ext \notin CODE_EXTENSIONS
    THEN [raised |-> "none", functions |-> << >>, line_count |-> 0]
    ELSE LET duplicates == find_duplicate_functions(content)
             r == AnalyzeMatches(content, finditer(content, 1), duplicates, << >>)
         IN  IF r.raised # "none"
             THEN [raised |-> r.raised, functions |-> << >>, line_count |-> 0]
             ELSE [raised |-> "none", functions |-> r.functions,
                   line_count |-> LineCount(content)]

\* (a slip: a handler for I/O errors only)
CaughtOSErrorOnly(exception) == exception = "OSError"

\* except Exception: the exceptions the handler catches
Caught(exception) == TRUE

\* [raised, functions, line_count]: raised is the exception that leaves the
\* function, "none" when it returns
analyze_file_content(file, content) ==
    LET b == AnalyzeBody(file, content)
    IN  IF b.raised # "none" /\ Caught(b.raised)
        THEN [raised |-> "none", functions |-> << >>, line_count |-> 0]
        ELSE b

\* ------------------------------------------------------------------------
\* The analyzer run on one file
\* ------------------------------------------------------------------------
\* The files analyze_file_content is given: extension, and what open/read do
AnalyzedFiles ==
    { [ext |-> ".js", read |-> "ok"],
      [ext |-> ".js", read |-> "OSError"],
      [ext |-> ".js", read |-> "UnicodeDecodeError"],
      [ext |-> ".css", read |-> "ok"],
      [ext |-> ".md", read |-> "ok"],
      [ext |-> ".png", read |-> "ok"] }

NoFile == [ext |-> "", read |-> "ok"]
NoAnalysis == [raised |-> "none", functions |-> << >>, line_count |-> 0]

StartAnalyzer ==
    /\ \E n \in 0..MaxLines : file_text \in Texts(n)
    /\ analyzed_file = NoFile
    /\ pc = "start"
    /\ function_lines = EmptyMap
    /\ duplicate_map = EmptyMap
    /\ analysis = NoAnalysis

\* no file under analysis
IdleAnalyzer ==
    /\ file_text = << >>
    /\ analyzed_file = NoFile
    /\ pc = "idle"
    /\ function_lines = EmptyMap
    /\ duplicate_map = EmptyMap
    /\ analysis = NoAnalysis

\* find_duplicate_functions(content, filename)
FindDuplicates ==
    /\ pc = "start"
    /\ function_lines' = FunctionLines(file_text)
    /\ duplicate_map' = find_duplicate_functions(file_text)
    /\ pc' = "scanned"
    /\ UNCHANGED <<file_text, analyzed_file, analysis>>
    /\ UNCHANGED outsideAnalyzer

\* analyze_file_content(file_path)
AnalyzeFile ==
    /\ pc = "scanned"
    /\ \E f \in AnalyzedFiles :
          /\ analyzed_file' = f
          /\ analysis' = analyze_file_content(f, file_text)
    /\ pc' = "done"
    /\ UNCHANGED <<file_text, function_lines, duplicate_map>>
    /\ UNCHANGED outsideAnalyzer

\* ------------------------------------------------------------------------
\* config.get_file_length_limit, content_generator.get_file_length_alert
\* Ratios and thresholds are exact: a threshold is held in tenths (1.5 is
\* 15), and ratio >= t is line_count * 10 >= t * limit.
\* ------------------------------------------------------------------------
\* get_default_config()['file_length_standards']
DefaultLengthStandards ==
    [e \in {".js", ".jsx", ".ts", ".tsx", ".py", ".css", ".scss", ".less",
            ".sass", ".html", ".vue", ".svelte", ".json", ".yaml", ".yml",
            ".toml", ".md", ".rst", "default", ".swift", ".kt", ".kts"} |->
       CASE e \in {".js", ".ts", ".html", "default", ".kt"} -> 300
         [] e \in {".jsx", ".tsx", ".vue", ".svelte"} -> 250
         [] e \in {".py", ".css", ".scss", ".less", ".sass", ".swift"} -> 400
         [] e \in {".json", ".yaml", ".yml", ".toml"} -> 100
         [] e \in {".md", ".rst"} -> 500
         [] OTHER -> 200]

\* dict.get(key, default)
DictGet(d, key, default) == IF key \in DOMAIN d THEN d[key] ELSE default

\* FILE_LENGTH_STANDARDS.get(ext, FILE_LENGTH_STANDARDS.get('default', 300))
get_file_length_limit(standards, ext) ==
    DictGet(standards, ext, DictGet(standards, "default", 300))

\* the default of config.get('file_length_thresholds', ...), in tenths
DefaultThresholds == [warning |-> 10, critical |-> 15, severe |-> 20]

\* (a slip: > for >=)
RatioAbove(line_count, limit, t) == line_count * 10 > t * limit

\* ratio >= t, for ratio = line_count / limit and limit > 0
RatioAtLeast(line_count, limit, t) == line_count * 10 >= t * limit

NoAlertLevel == [raised |-> "none", level |-> "None", percent |-> 0]

\* int(thresholds[tier]*100) of the message; KeyError when the tier has no
\* entry in thresholds
TierAlert(thresholds, tier) ==
    IF tier \in DOMAIN thresholds
    THEN [raised |-> "none", level |-> tier, percent |-> thresholds[tier] * 10]
    ELSE [raised |-> "KeyError", level |-> "None", percent |-> 0]

\* [raised, level, percent]: the alert level ("None" for no alert) and the
\* percentage its message states
get_file_length_alert(line_count, limit, thresholds) ==
    IF limit = 0
    THEN [raised |-> "ZeroDivisionError", level |-> "None", percent |-> 0]
    ELSE IF RatioAtLeast(line_count, limit, DictGet(thresholds, "severe", 20))
    THEN TierAlert(thresholds, "severe")
    ELSE IF RatioAtLeast(line_count, limit, DictGet(thresholds, "critical", 15))
    THEN TierAlert(thresholds, "critical")
    ELSE IF RatioAtLeast(line_count, limit, DictGet(thresholds, "warning", 10))
    THEN [raised |-> "none", level |-> "warning", percent |-> 0]
    ELSE NoAlertLevel

\* The configurations the length check is run under
LengthStandardsChoices ==
    { DefaultLengthStandards,
      [e \in {".py", "default"} |-> IF e = ".py" THEN 2 ELSE 3],
      [e \in {".py"} |-> 0] }

ThresholdsChoices ==
    { DefaultThresholds,
      [warning |-> 5, critical |-> 10, severe |-> 30],
      [warning |-> 10] }

AlertExtensions == {".py", ".js", ".rb"}

StartAlert ==
    /\ alert_ext \in AlertExtensions
    /\ length_standards \in LengthStandardsChoices
    /\ length_thresholds \in ThresholdsChoices
    /\ alert_lines = 1
    /\ length_alert = get_file_length_alert(
                  1, get_file_length_limit(length_standards, alert_ext),
                  length_thresholds)

\* no file under the length check
IdleAlert ==
    /\ alert_ext = ""
    /\ length_standards = DefaultLengthStandards
    /\ length_thresholds = DefaultThresholds
    /\ alert_lines = 0
    /\ length_alert = NoAlertLevel

\* the file gets one more line and is checked again
GrowFile ==
    /\ alert_ext # ""
    /\ alert_lines < MaxLineCount
    /\ alert_lines' = alert_lines + 1
    /\ length_alert' = get_file_length_alert(
                   alert_lines + 1,
                   get_file_length_limit(length_standards, alert_ext),
                   length_thresholds)
    /\ UNCHANGED <<alert_ext, length_standards, length_thresholds>>
    /\ UNCHANGED outsideAlert

\* ------------------------------------------------------------------------
\* The project directory
\* ------------------------------------------------------------------------
\* A path is the sequence of the names from the project directory down.
\* The names that occur, in the order Python compares str (code points)
Names ==
    <<".eslintrc.js", ".github", "README.md", "app.js", "ci.js", "deep.js",
      "lib", "logo.png", "node_modules", "package.json", "pkg.js", "src",
      "util.py", "yarn.lock">>

Directories ==
    { <<"src">>, <<"src", "lib">>, <<"node_modules">>, <<".github">> }

Files ==
    { <<"app.js">>, <<"README.md">>, <<"logo.png">>, <<".eslintrc.js">>,
      <<"yarn.lock">>, <<"src", "util.py">>, <<"src", "lib", "deep.js">>,
      <<"node_modules", "pkg.js">>, <<".github", "ci.js">>,
      <<"package.json">> }

\* what open(file_path).read() gives for each file
FileText(path) ==
    LET name == path[Len(path)]
    IN  CASE name = "app.js" ->
               JoinLines(<< <<"function", "getUser", "(){}">>, <<"x=1;">>, << >> >>)
          [] name = "util.py" ->
               JoinLines(<< <<"function", "run", "(){}">>,
                            <<"function", "run", "(){}">>, << >> >>)
          [] name = ".eslintrc.js" ->
               JoinLines(<< <<"//", "Adds", "two", "numbers", "and", "returns">>,
                            <<"function", "getUser", "(){}">> >>)
          [] name = "pkg.js" -> JoinLines(<< <<"getUser", "();">> >>)
          [] name = "ci.js" -> JoinLines(<< <<"x=1;">>, <<"x=1;">> >>)
          [] name = "README.md" ->
               JoinLines(<< <<"x=1;">>, << >>, <<"x=1;">> >>)
          [] OTHER -> JoinLines(<< <<"x=1;">> >>)

\* os.path.splitext(name)[1].lower()
splitext(name) ==
    CASE name \in {".eslintrc.js", "app.js", "ci.js", "deep.js", "pkg.js"} -> ".js"
      [] name = "util.py" -> ".py"
      [] name = "README.md" -> ".md"
      [] name = "logo.png" -> ".png"
      [] name = "yarn.lock" -> ".lock"
      [] name = "package.json" -> ".json"
      [] OTHER -> ""

\* name.startswith('.')
startswith_dot(name) == name \in {".eslintrc.js", ".github"}

\* name.endswith(suffix), for the names above and the suffixes of
\* ignored_files
endswith(name, suffix) == name = suffix \/ splitext(name) = suffix

\* the position of a name in the order of str
Rank(name) == CHOOSE i \in DOMAIN Names : Names[i] = name

RECURSIVE Listed(_, _)
\* the names of a set one after the other, in the order of the listing
Listed(names, order) ==
    IF names = {} THEN << >>
    ELSE LET first == CHOOSE n \in names : \A m \in names :
                          IF order = "ascending" THEN Rank(n) <= Rank(m)
                                                 ELSE Rank(n) >= Rank(m)
         IN  <<first>> \o Listed(names \ {first}, order)

\* os.listdir(path): the names directly under a directory
listdir(files, order, path) ==
    Listed({ p[Len(p)] : p \in { q \in files : /\ Len(q) = Len(path) + 1
                                                /\ SubSeq(q, 1, Len(path)) = path } },
           order)

\* get_default_config()['ignored_directories'], and IGNORED_NAMES made of it
ignored_directories ==
    {"__pycache__", "node_modules", "venv", ".git", ".idea", ".vscode",
     "dist", "build", "coverage"}

\* get_default_config()['ignored_files'], each after replace('*', '')
ignored_files ==
    {".DS_Store", "Thumbs.db", ".pyc", ".pyo", "package-lock.json", "yarn.lock"}

\* name in IGNORED_NAMES or name.startswith('.')
should_ignore_file(name) ==
    name \in ignored_directories \/ startswith_dot(name)

\* ------------------------------------------------------------------------
\* content_generator.get_directory_structure, structure_to_tree
\* ------------------------------------------------------------------------
\* A structure is the list of its items in insertion order; an item is
\* [name, isdir, substructure], isdir FALSE for structure[item] = None.
RECURSIVE get_directory_structure(_, _, _, _, _)
get_directory_structure(files, order, project_path, max_depth, current_depth) ==
    IF current_depth > max_depth THEN << >>
    ELSE LET items == listdir(files, order, project_path)
             scan[i \in 0..Len(items)] ==
                 IF i = 0 THEN << >>
                 ELSE LET item == items[i]
                          item_path == Append(project_path, item)
                      IN  IF should_ignore_file(item) THEN scan[i-1]
                          ELSE IF item_path \in Directories
                          THEN LET substructure ==
                                       get_directory_structure(files, order,
                                           item_path, max_depth, current_depth + 1)
                               IN  IF substructure # << >>
                                   THEN Append(scan[i-1],
                                               [name |-> item, isdir |-> TRUE,
                                                substructure |-> substructure])
                                   ELSE scan[i-1]
                          ELSE Append(scan[i-1],
                                      [name |-> item, isdir |-> FALSE,
                                       substructure |-> << >>])
         IN  scan[Len(items)]

\* key=lambda x: (x[1] is not None, x[0]), and the order of the keys:
\* False before True, then the names in the order of str
KeyBefore(x, y) ==
    \/ ~x.isdir /\ y.isdir
    \/ x.isdir = y.isdir /\ Rank(x.name) < Rank(y.name)

RECURSIVE sorted(_)
\* sorted(list(structure.items()), key=...)
sorted(items) ==
    IF items = << >> THEN << >>
    ELSE LET i == CHOOSE i \in DOMAIN items :
                      \A j \in DOMAIN items : j = i \/ KeyBefore(items[i], items[j])
         IN  <<items[i]>> \o
             sorted(SubSeq(items, 1, i-1) \o SubSeq(items, i+1, Len(items)))

RECURSIVE structure_to_tree(_, _)
\* A line of the tree is [kind, prefix, connector, icon, name]; the prefix
\* is the list of the extensions added on the way down.  The box-drawing
\* connectors are written "|- " and "+- ", the extensions "|  " and "   ",
\* the icons "dir " and "file ".
structure_to_tree(structure, prefix) ==
    LET items == sorted(structure)
        render[i \in 0..Len(items)] ==
            IF i = 0 THEN << >>
            ELSE LET is_last == i = Len(items)
                     line == [kind |-> "tree", prefix |-> prefix,
                              connector |-> IF is_last THEN "+- " ELSE "|- ",
                              icon |-> IF items[i].isdir THEN "dir " ELSE "file ",
                              name |-> items[i].name]
                 IN  IF ~items[i].isdir
                     THEN Append(render[i-1], line)
                     ELSE Append(render[i-1], line) \o
                          structure_to_tree(items[i].substructure,
                              Append(prefix, IF is_last THEN "   " ELSE "|  "))
    IN  render[Len(items)]

\* ------------------------------------------------------------------------
\* project_detector: what the head of the report is made of
\* ------------------------------------------------------------------------
\* os.path.basename(project_path) and the parts of project_path
ProjectPath == <<"proj">>

\* PROJECT_TYPES, in the order of the dict: a rule is [type, description,
\* indicators, required_files]
PROJECT_TYPES ==
    << [type |-> "python", description |-> "Python Project",
        indicators |-> <<"setup.py", "requirements.txt", "Pipfile", "pyproject.toml">>,
        required_files |-> << >>],
       [type |-> "node_js", description |-> "Node.js Project",
        indicators |-> <<"package.json", "package-lock.json", "yarn.lock">>,
        required_files |-> << >>],
       [type |-> "php", description |-> "PHP Project",
        indicators |-> <<"composer.json", "composer.lock", "artisan">>,
        required_files |-> << >>],
       [type |-> "java", description |-> "Java Project",
        indicators |-> <<"pom.xml", "build.gradle", "gradlew">>,
        required_files |-> << >>],
       [type |-> "dotnet", description |-> ".NET Project",
        indicators |-> <<".sln", ".csproj", ".vbproj", ".fsproj">>,
        required_files |-> << >>],
       [type |-> "go", description |-> "Go Project",
        indicators |-> <<"go.mod", "go.sum">>,
        required_files |-> << >>],
       [type |-> "rust", description |-> "Rust Project",
        indicators |-> <<"Cargo.toml", "Cargo.lock">>,
        required_files |-> << >>],
       [type |-> "flutter", description |-> "Flutter Project",
        indicators |-> <<"pubspec.yaml", "pubspec.lock">>,
        required_files |-> << >>],
       [type |-> "android", description |-> "Android Project",
        indicators |-> <<"build.gradle", "settings.gradle", "gradlew">>,
        required_files |-> << >>],
       [type |-> "ios", description |-> "iOS Project",
        indicators |-> <<"*.xcodeproj", "*.xcworkspace", "Podfile">>,
        required_files |-> << >>],
       [type |-> "web", description |-> "Web Project",
        indicators |-> <<"index.html", "webpack.config.js", "vite.config.js">>,
        required_files |-> << >>],
       [type |-> "docker", description |-> "Docker Project",
        indicators |-> <<"Dockerfile", "docker-compose.yml">>,
        required_files |-> << >>],
       [type |-> "git", description |-> "Git Repository",
        indicators |-> <<".git">>,
        required_files |-> << >>] >>

\* '*' in indicator, and re.match of the pattern made of the indicator
\* against a name, for the names above
IndicatorFound(indicator, files) ==
    IF indicator \in {"*.xcodeproj", "*.xcworkspace"}
    THEN indicator = "*.xcodeproj" /\ "App.xcodeproj" \in files
    ELSE indicator \in files

\* the inner loop: an indicator of the rule is found among the names
RuleMatches(rules, files) ==
    \E i \in DOMAIN rules.indicators : IndicatorFound(rules.indicators[i], files)

\* project_type after the inner loop of a rule: the break leaves the inner
\* loop only
AfterRule(project_type, matches, type_name) ==
    IF matches THEN type_name ELSE project_type

RECURSIVE TypeLoop(_, _, _)
\* for type_name, rules in PROJECT_TYPES.items(), from rule i on
TypeLoop(i, project_type, files) ==
    IF i > Len(PROJECT_TYPES) THEN project_type
    ELSE IF /\ PROJECT_TYPES[i].required_files # << >>
            /\ \A r \in DOMAIN PROJECT_TYPES[i].required_files :
                  PROJECT_TYPES[i].required_files[r] \in files
    THEN PROJECT_TYPES[i].type
    ELSE TypeLoop(i + 1,
                  AfterRule(project_type, RuleMatches(PROJECT_TYPES[i], files),
                            PROJECT_TYPES[i].type),
                  files)

\* the common development files of the fallback
common_dev_files ==
    {"README.md", ".gitignore", "LICENSE", "CHANGELOG.md",
     "docs/", "src/", "test/", "tests/"}

\* (a slip: no fallback on the common development files)
NoFallback(project_type, files) == project_type

\* if project_type == 'generic': ... project_type = 'generic_dev'
Fallback(project_type, files) ==
    IF project_type = "generic" /\ files \cap common_dev_files # {}
    THEN "generic_dev" ELSE project_type

\* (a slip: every rule is described as a generic project)
TypeDescriptionGeneric(project_type) == "Generic Project"

\* PROJECT_TYPES.get(project_type, {'description': 'Generic Project'})
\* ['description']
TypeDescription(project_type) ==
    IF \E i \in DOMAIN PROJECT_TYPES : PROJECT_TYPES[i].type = project_type
    THEN PROJECT_TYPES[CHOOSE i \in DOMAIN PROJECT_TYPES :
                           PROJECT_TYPES[i].type = project_type].description
    ELSE "Generic Project"

\* language_indicators, in the order of the dict
Languages ==
    <<"python", "javascript", "typescript", "java", "php", "ruby", "go",
      "rust", "c++", "c#", "lua">>

\* the languages with an indicator that a name matches: f.endswith(ind) for
\* an indicator that starts with a dot, ind in f for another, for the names
\* above
LanguagesOf(f) ==
    CASE f \in {".eslintrc.js", "app.js", "ci.js", "deep.js", "pkg.js",
                "package.json"} -> {"javascript"}
      [] f \in {"util.py", "requirements.txt"} -> {"python"}
      [] f \in {"go.mod", "main.go"} -> {"go"}
      [] f \in {"build.gradle", "App.java"} -> {"java"}
      [] f = "app.ts" -> {"typescript"}
      [] f \in {"index.php", "composer.json"} -> {"php"}
      [] f = "app.rb" -> {"ruby"}
      [] f = "main.rs" -> {"rust"}
      [] f = "main.cpp" -> {"c++"}
      [] f = "Program.cs" -> {"c#"}
      [] f = "init.lua" -> {"lua"}
      [] OTHER -> {}

RECURSIVE LanguageLoop(_, _, _, _)
\* for lang, indicators in language_indicators.items(), from language i on
LanguageLoop(i, detected_language, max_matches, files) ==
    IF i > Len(Languages) THEN detected_language
    ELSE IF Cardinality({f \in files : Languages[i] \in LanguagesOf(f)}) > max_matches
    THEN LanguageLoop(i + 1, Languages[i],
                      Cardinality({f \in files : Languages[i] \in LanguagesOf(f)}),
                      files)
    ELSE LanguageLoop(i + 1, detected_language, max_matches, files)

\* detect_language_and_framework(project_path)[0]; the manifests of the
\* model name no framework, so [1] is 'none'
detect_language(files) == LanguageLoop(1, "unknown", 0, files)

\* framework_indicators, in the order of the dict
Frameworks ==
    <<"django", "flask", "fastapi", "react", "vue", "angular", "laravel",
      "spring", "express", "dotnet">>

\* the files whose content is searched for the indicators of a framework
FrameworkManifests == {"requirements.txt", "package.json", "composer.json"}

RECURSIVE FrameworkLoop(_, _, _, _)
\* for framework, indicators in framework_indicators.items(), from
\* framework i on; mentions are the frameworks with an indicator that
\* occurs in the lower-cased content of a manifest (the break leaves the
\* loop over the files only)
FrameworkLoop(i, detected_framework, files, mentions) ==
    IF i > Len(Frameworks) THEN detected_framework
    ELSE IF files \cap FrameworkManifests # {} /\ Frameworks[i] \in mentions
    THEN FrameworkLoop(i + 1, Frameworks[i], files, mentions)
    ELSE FrameworkLoop(i + 1, detected_framework, files, mentions)

\* detect_language_and_framework(project_path) on a directory with manifests
\* that mention frameworks
detect_language_and_framework(files, mentions) ==
    [language |-> detect_language(files),
     framework |-> FrameworkLoop(1, "none", files, mentions)]

\* the result of a detection that went through
DetectedType(project_type, files) ==
    [raised |-> "none", type |-> project_type,
     language |-> detect_language(files), framework |-> "none",
     description |-> TypeDescription(project_type)]

\* except (PermissionError, OSError)
ListingCaught(listing) == listing \in {"PermissionError", "OSError"}

\* A directory is [listing, names]: listing is "ok", "missing" when
\* os.path.exists is False, or the exception os.listdir raises.
\* [raised, type, language, framework, description]; description "none"
\* stands for a result without the key
detect_project_type(dir) ==
    IF dir.listing = "missing"
    THEN [raised |-> "none", type |-> "generic", language |-> "unknown",
          framework |-> "none", description |-> "none"]
    ELSE IF dir.listing # "ok"
    THEN IF ListingCaught(dir.listing)
         THEN [raised |-> "none", type |-> "generic", language |-> "unknown",
               framework |-> "none", description |-> "none"]
         ELSE [raised |-> dir.listing, type |-> "none", language |-> "none",
               framework |-> "none", description |-> "none"]
    ELSE DetectedType(Fallback(TypeLoop(1, "generic", dir.names), dir.names),
                      dir.names)

\* json.load of a package.json that holds an object:
\* {"name": ..., "description": ..., "version": ..., "dependencies": {...}}
PackageData ==
    [name |-> "pkg", description |-> "A package", version |-> "1.0.0",
     dependencies |-> <<"lodash">>]

\* the dict of the except branch
DescriptionError ==
    [name |-> ProjectPath[Len(ProjectPath)],
     description |-> "Error reading project information",
     key_features |-> << <<"File and directory tracking">> >>]

\* result.update(...) of the node_js branch
NodeDescription(package_data) ==
    [name |-> package_data.name,
     description |-> package_data.description,
     key_features |->
        << <<"Version: ", package_data.version>>,
           <<"Type: ", TypeDescription("node_js")>> >> \o
        [i \in 1..(IF Len(package_data.dependencies) < 3
                   THEN Len(package_data.dependencies) ELSE 3) |->
            <<"Dependency: ", package_data.dependencies[i]>>]]

\* result before the branches on the project type
DefaultDescription(project_info) ==
    [name |-> ProjectPath[Len(ProjectPath)],
     description |-> "Project directory structure and information",
     key_features |->
        << <<"Type: ", TypeDescription(project_info.type)>>,
           <<"Language: ", project_info.language>>,
           <<"Framework: ", project_info.framework>>,
           <<"File and directory tracking">>,
           <<"Automatic updates">> >>]

\* the body of the try, given what detect_project_type returned; manifest
\* is what json.load does on package.json: "object" when it returns
\* PackageData, "malformed" when it raises
DescribeProject(project_info, dir, manifest) ==
    IF project_info.raised # "none" THEN DescriptionError
    ELSE IF project_info.type = "node_js" /\ "package.json" \in dir.names
    THEN IF manifest = "malformed" THEN DescriptionError
         ELSE NodeDescription(PackageData)
    ELSE DefaultDescription(project_info)

\* [name, description, key_features]; a feature is the list of its parts
get_project_description(dir, manifest) ==
    DescribeProject(detect_project_type(dir), dir, manifest)

\* get_file_type_info(filename)[1]
get_file_type_info(ext) ==
    CASE ext = ".js" -> "JavaScript file for client-side functionality"
      [] ext = ".py" -> "Python script containing project logic"
      [] ext = ".md" -> "Documentation file"
      [] OTHER -> "Project file"

\* ------------------------------------------------------------------------
\* content_generator.ProjectMetrics, generate_focus_content
\* ------------------------------------------------------------------------
\* ProjectMetrics.__init__: a new object
ProjectMetrics ==
    [total_files |-> 0, total_lines |-> 0,
     files_by_type |-> [e \in {} |-> 0], lines_by_type |-> [e \in {} |-> 0],
     alerts |-> [warning |-> 0, critical |-> 0, severe |-> 0],
     duplicate_functions |-> 0]

\* (a slip: the object of the call before is used again)
MetricsOfLastCall == metrics

\* metrics = ProjectMetrics(): the object a call counts in
MetricsAtStart == ProjectMetrics

RECURSIVE os_walk(_, _, _)
\* os.walk(project_path): the directories, each before what is under it
os_walk(files, order, root) ==
    LET names == listdir(files, order, root)
        below[i \in 0..Len(names)] ==
            IF i = 0 THEN << >>
            ELSE IF Append(root, names[i]) \in Directories
            THEN below[i-1] \o os_walk(files, order, Append(root, names[i]))
            ELSE below[i-1]
    IN  <<root>> \o below[Len(names)]

\* The files the two loops reach, in order: a directory is passed over
\* when a part of its path is in ignored_directories, a file when its name
\* ends with an entry of ignored_files
WalkedFiles(files, order) ==
    LET roots == os_walk(files, order, << >>)
        filesOf(root) ==
            IF \E part \in DOMAIN (ProjectPath \o root) :
                   (ProjectPath \o root)[part] \in ignored_directories
            THEN << >>
            ELSE LET names == listdir(files, order, root)
                     kept == SelectSeq(names, LAMBDA file :
                                /\ Append(root, file) \notin Directories
                                /\ ~\E ignored \in ignored_files :
                                       endswith(file, ignored))
                 IN  [i \in DOMAIN kept |-> Append(root, kept[i])]
        all[i \in 0..Len(roots)] ==
            IF i = 0 THEN << >> ELSE all[i-1] \o filesOf(roots[i])
    IN  all[Len(roots)]

\* dict[key] = dict.get(key, 0) + n
Add(d, key, n) ==
    [k \in DOMAIN d \cup {key} |->
        IF k = key THEN DictGet(d, key, 0) + n ELSE d[k]]

\* Lines 92-119 for a file that is reported; st is [content, first_file,
\* metrics] and alert what get_file_length_alert gave
ReportLines(st, rel_path, ext, functions, line_count, length_limit, alert) ==
    [content |->
        st.content \o
        (IF st.first_file THEN << >> ELSE <<[kind |-> "blank"]>>) \o
        <<[kind |-> "file", rel_path |-> rel_path, line_count |-> line_count],
          [kind |-> "responsibilities", file_desc |-> get_file_type_info(ext)]>> \o
        (IF functions = << >> THEN << >>
         ELSE <<[kind |-> "text", text |-> "**Key Functions:**"]>> \o
              [i \in DOMAIN functions |->
                 [kind |-> "function", func_name |-> functions[i][1],
                  description |-> functions[i][2]]]) \o
        (IF alert.level = "None" THEN << >>
         ELSE <<[kind |-> "length_alert", level |-> alert.level,
                 percent |-> alert.percent, line_count |-> line_count,
                 length_limit |-> length_limit]>>),
     first_file |-> FALSE,
     metrics |->
        [st.metrics EXCEPT
           !.total_files = @ + 1,
           !.files_by_type = Add(@, ext, 1),
           !.lines_by_type = Add(@, ext, line_count),
           !.total_lines = @ + line_count,
           !.duplicate_functions =
               @ + Cardinality({i \in DOMAIN functions :
                                   functions[i][2].alert # NoAlert}),
           !.alerts = IF alert.level = "None" THEN @
                      ELSE [@ EXCEPT ![alert.level] = @ + 1]]]

\* Lines 88-119 for a file that is_binary_file lets pass, analysed as
\* [functions, line_count]
ReportAnalyzed(st, rel_path, ext, functions, line_count, length_limit, config) ==
    IF ~(functions # << >> \/ line_count > 0)
    THEN [st EXCEPT !.metrics.total_files = @ + 1]
    ELSE ReportLines(st, rel_path, ext, functions, line_count, length_limit,
                     get_file_length_alert(line_count, length_limit,
                                           config.file_length_thresholds))

\* functions, line_count = analyze_file_content(file_path)
ReportCounted(st, rel_path, ext, analysed, config) ==
    ReportAnalyzed(st, rel_path, ext, analysed.functions, analysed.line_count,
                   get_file_length_limit(config.file_length_standards, ext),
                   config)

\* The body of the inner loop for one file
ReportFile(st, rel_path, ext, config) ==
    IF is_binary_file(ext) THEN st
    ELSE ReportCounted(st, rel_path, ext,
                       analyze_file_content([ext |-> ext, read |-> "ok"],
                                            FileText(rel_path)),
                       config)

RECURSIVE ReportFiles(_, _, _)
\* the two loops over the files reached, from the state st on
ReportFiles(st, paths, config) ==
    IF paths = << >> THEN st
    ELSE ReportFiles(ReportFile(st, Head(paths),
                                 splitext(Head(paths)[Len(Head(paths))]), config),
                     Tail(paths), config)

\* The extensions in the order of str
Extensions == <<".js", ".py">>

\* datetime.now().strftime('%B %d, %Y at %I:%M %p'): the clock counts half
\* minutes, the text holds the date and the minute
strftime(t) == t \div 2

\* Lines 43-70: the head of the text, with the tree in it
ReportHead(project_info, tree) ==
    LET text(s) == [kind |-> "text", text |-> s]
        blank == [kind |-> "blank"]
    IN  << [kind |-> "title", name |-> project_info.name], blank,
           [kind |-> "goal", description |-> project_info.description],
           blank, text("**Key Components:**") >> \o
        tree \o
        << blank, text("**Project Context:**"),
           [kind |-> "type",
            feature |-> SelectSeq(project_info.key_features[2],
                                  LAMBDA part : part # "Type: ")],
           [kind |-> "users", name |-> project_info.name],
           [kind |-> "functionality",
            description |-> project_info.description],
           text("Key Requirements:") >> \o
        [i \in DOMAIN project_info.key_features |->
            [kind |-> "requirement",
             feature |-> project_info.key_features[i]]] \o
        << blank, text("**Development Guidelines:**"),
           text("- Keep code modular and reusable"),
           text("- Follow best practices for the project type"),
           text("- Maintain clean separation of concerns"),
           blank, text("# File Analysis") >>

\* Lines 122-139: the metrics summary and the time of the call
ReportSummary(m, t) ==
    LET text(s) == [kind |-> "text", text |-> s]
        blank == [kind |-> "blank"]
        by_type == SelectSeq(Extensions, LAMBDA e : e \in DOMAIN m.files_by_type)
    IN  << blank, text("# Project Metrics Summary"),
           [kind |-> "total_files", count |-> m.total_files],
           [kind |-> "total_lines", count |-> m.total_lines],
           blank, text("**Files by Type:**") >> \o
        [i \in DOMAIN by_type |->
            [kind |-> "by_type", ext |-> by_type[i],
             count |-> m.files_by_type[by_type[i]],
             lines |-> m.lines_by_type[by_type[i]]]] \o
        << blank, text("**Code Quality Alerts:**"),
           [kind |-> "alerts", level |-> "severe", count |-> m.alerts.severe],
           [kind |-> "alerts", level |-> "critical", count |-> m.alerts.critical],
           [kind |-> "alerts", level |-> "warning", count |-> m.alerts.warning],
           [kind |-> "duplicates", count |-> m.duplicate_functions],
           blank,
           [kind |-> "updated", stamp |-> strftime(t)] >>

\* '\n'.join(content) after the summary is added; end is the state the
\* loops leave
ReportEnd(end, t) ==
    [raised |-> "none",
     content |-> end.content \o ReportSummary(end.metrics, t),
     metrics |-> end.metrics]

\* the directory detect_project_type and get_project_description look at
ProjectDir(files) ==
    [listing |-> "ok", names |-> { p[1] : p \in { q \in files : Len(q) = 1 } }]

\* [raised, content, metrics]: the exception that leaves the call, the
\* lines of the text returned and the metrics object as the call leaves
\* it; project_info['key_features'][1] of line 58 raises IndexError on a
\* list of one feature
generate_focus_content(files, manifest, order, config, t) ==
    IF Len(get_project_description(ProjectDir(files), manifest).key_features) < 2
    THEN [raised |-> "IndexError", content |-> << >>, metrics |-> MetricsAtStart]
    ELSE
    ReportEnd(
        ReportFiles(
            [content |->
                ReportHead(
                    get_project_description(ProjectDir(files), manifest),
                    structure_to_tree(
                        get_directory_structure(files, order, << >>,
                                                config.max_depth, 0),
                        << >>)),
             first_file |-> TRUE,
             metrics |-> MetricsAtStart],
            WalkedFiles(files, order), config),
        t)

\* ------------------------------------------------------------------------
\* The report generator run on a project directory
\* ------------------------------------------------------------------------
\* The directory trees: with a path, the directory it is in; a directory
\* of one name is there when something is in it
ProjectTrees ==
    { t \in SUBSET (Directories \cup Files) :
        /\ \A p \in t : Len(p) > 1 => SubSeq(p, 1, Len(p) - 1) \in t
        /\ \A d \in {<<"node_modules">>, <<".github">>} \cap t :
              \E p \in t : Len(p) = 2 /\ p[1] = d[1] }

\* The configurations: max_depth, file_length_standards and
\* file_length_thresholds of config.json
FocusConfigs ==
    { [max_depth |-> 3, file_length_standards |-> DefaultLengthStandards,
       file_length_thresholds |-> DefaultThresholds],
      [max_depth |-> 1,
       file_length_standards |->
           [e \in {".py", "default"} |-> IF e = ".py" THEN 2 ELSE 3],
       file_length_thresholds |-> DefaultThresholds] }

\* what json.load does on package.json
Manifests(files) ==
    IF <<"package.json">> \in files THEN {"object", "malformed"} ELSE {"absent"}

StartReport ==
    /\ project_files \in ProjectTrees
    /\ package_json \in Manifests(project_files)
    /\ focus_error = "none"
    /\ listdir_order \in {"ascending", "descending"}
    /\ focus_config \in FocusConfigs
    /\ now = 0
    /\ metrics = ProjectMetrics
    /\ reports = << >>

\* no project under the report generator
IdleReport ==
    /\ project_files = {}
    /\ package_json = "absent"
    /\ focus_error = "none"
    /\ listdir_order = "ascending"
    /\ focus_config = [max_depth |-> 3,
                       file_length_standards |-> DefaultLengthStandards,
                       file_length_thresholds |-> DefaultThresholds]
    /\ now = 0
    /\ metrics = ProjectMetrics
    /\ reports = << >>

\* what a call leaves: the text with the texts returned before, or the
\* exception
Returned(r) ==
    /\ metrics' = r.metrics
    /\ focus_error' = r.raised
    /\ reports' = IF r.raised = "none" THEN Append(reports, r.content)
                  ELSE reports

\* one call of generate_focus_content(project_path, config)
GenerateFocus ==
    /\ Len(reports) < MaxCalls
    /\ Returned(generate_focus_content(project_files, package_json,
                                       listdir_order, focus_config, now))
    /\ UNCHANGED <<project_files, package_json, listdir_order, focus_config, now>>
    /\ UNCHANGED outsideReport

\* time passes
Tick ==
    /\ now < MaxTime
    /\ now' = now + 1
    /\ UNCHANGED <<project_files, package_json, listdir_order, focus_config,
                   metrics, reports, focus_error>>
    /\ UNCHANGED outsideReport

\* ------------------------------------------------------------------------
\* detect_project_type run on a directory
\* ------------------------------------------------------------------------
\* the names os.listdir may give
DetectNames ==
    {".git", "App.xcodeproj", "Dockerfile", "LICENSE", "README.md",
     "build.gradle", "go.mod", "main.go", "package.json", "util.py"}

\* the directories: listed, missing, or not to be listed
DetectDirs ==
    { [listing |-> "ok", names |-> n] : n \in SUBSET DetectNames } \cup
    { [listing |-> l, names |-> {}] :
         l \in {"missing", "PermissionError", "OSError"} }

\* no call made
NotDetected ==
    [raised |-> "none", type |-> "none", language |-> "none",
     framework |-> "none", description |-> "none"]

StartDetect ==
    /\ detect_dir \in DetectDirs
    /\ detected = NotDetected

\* no directory under detect_project_type
IdleDetect ==
    /\ detect_dir = [listing |-> "missing", names |-> {}]
    /\ detected = NotDetected

\* one call of detect_project_type(project_path)
Detect ==
    /\ detected' = detect_project_type(detect_dir)
    /\ UNCHANGED detect_dir
    /\ UNCHANGED outsideDetect

\* ------------------------------------------------------------------------
\* scan_for_projects and its cache
\* ------------------------------------------------------------------------
\* the seconds a cache entry is good for
CacheSeconds == 300

\* root paths, as the characters of the str, and depths
RootPaths == { <<"a">>, <<"a", ":", "1">> }
Depths == {1, 2}

\* str(max_depth)
str(n) == CASE n = 1 -> <<"1">> [] n = 2 -> <<"2">>

\* f"{root_path}:{max_depth}"
cache_key(root_path, max_depth) == root_path \o <<":">> \o str(max_depth)

\* what _do_scan(root_path, max_depth, ignored_dirs) finds: the projects
\* under root_path down to max_depth as the disk is now
\* (ignored_dirs is the default in every call)
do_scan(root_path, max_depth, d) ==
    [root |-> root_path, depth |-> max_depth, found |-> d]

\* (a slip: an entry of exactly 300 seconds is still good)
CacheFreshInclusive(now_time, cache_time) == now_time - cache_time <= CacheSeconds

\* time.time() - cache_time < 300
CacheFresh(now_time, cache_time) == now_time - cache_time < CacheSeconds

\* the first if: the cached results are returned
CacheHit(key, use_cache) ==
    /\ use_cache
    /\ key \in DOMAIN scan_cache
    /\ CacheFresh(clock, scan_cache[key].cache_time)

\* _scan_cache[cache_key] = (time.time(), results)
Store(cache, key, entry) ==
    [k \in DOMAIN cache \cup {key} |-> IF k = key THEN entry ELSE cache[k]]

StartScan ==
    /\ scan_cache = << >>
    /\ clock = 0
    /\ disk \in 0..MaxDisk
    /\ scans = 0
    /\ scan_call = [number |-> 0]

\* no call of scan_for_projects
IdleScan ==
    /\ scan_cache = << >>
    /\ clock = 0
    /\ disk = 0
    /\ scans = 0
    /\ scan_call = [number |-> 0]

\* one call of scan_for_projects(root_path, max_depth, None, use_cache)
ScanForProjects ==
    /\ scan_call.number < MaxScanCalls
    /\ \E root_path \in RootPaths, max_depth \in Depths, use_cache \in BOOLEAN :
          LET key == cache_key(root_path, max_depth)
              results == do_scan(root_path, max_depth, disk)
          IN  IF CacheHit(key, use_cache)
              THEN /\ scan_call' = [number |-> scan_call.number + 1,
                                    root_path |-> root_path,
                                    max_depth |-> max_depth,
                                    use_cache |-> use_cache,
                                    returned |-> scan_cache[key].results]
                   /\ UNCHANGED <<scan_cache, scans>>
              ELSE /\ scans' = scans + 1
                   /\ scan_cache' =
                          IF use_cache
                          THEN Store(scan_cache, key,
                                     [cache_time |-> clock, results |-> results])
                          ELSE scan_cache
                   /\ scan_call' = [number |-> scan_call.number + 1,
                                    root_path |-> root_path,
                                    max_depth |-> max_depth,
                                    use_cache |-> use_cache,
                                    returned |-> results]
    /\ UNCHANGED <<clock, disk>>
    /\ UNCHANGED outsideScan

\* time passes between calls: a second short of the expiry, or the expiry
Wait ==
    /\ \E seconds \in {CacheSeconds - 1, CacheSeconds} :
          /\ clock + seconds <= MaxClock
          /\ clock' = clock + seconds
    /\ UNCHANGED <<scan_cache, disk, scans, scan_call>>
    /\ UNCHANGED outsideScan

\* a project is added or removed under the scanned directories
ChangeDisk ==
    /\ disk' \in (0..MaxDisk) \ {disk}
    /\ UNCHANGED <<scan_cache, clock, scans, scan_call>>
    /\ UNCHANGED outsideScan

\* ------------------------------------------------------------------------
\* RulesAnalyzer, as analyzers.py and as rules_analyzer.py define it
\* ------------------------------------------------------------------------
\* the methods of class RulesAnalyzer of analyzers.py
AnalyzersMethods == {"__init__", "analyze_project_for_rules"}

\* analyzers.RulesAnalyzer.analyze_project_for_rules: self.<method>() is an
\* AttributeError for a method the class lacks; the handler of the try
\* logs it and calls self.get_default_project_info()
analyzers_analyze_project_for_rules(dir) ==
    IF {"detect_project_name", "detect_version", "detect_main_language",
        "detect_framework", "determine_project_type"} \subseteq AnalyzersMethods
    THEN [raised |-> "none", info |-> "detected"]
    ELSE IF "get_default_project_info" \in AnalyzersMethods
    THEN [raised |-> "none", info |-> "default"]
    ELSE [raised |-> "AttributeError", info |-> "none"]

\* what json.load returns for the package.json of the model that names
\* react and for the one that names nothing
PackageJson(manifest) ==
    IF manifest = "react"
    THEN [name |-> "@scope/app", dependencies |-> {"react"}]
    ELSE [name |-> "", dependencies |-> {}]

\* the package.json is there and json.load returns its object; on a
\* "malformed" one it raises, and 'except: pass' goes on
PackageLoaded(dir) ==
    "package.json" \in dir.names /\ dir.manifest # "malformed"

\* _detect_project_name: the name of package.json, or the directory name
\* (no setup.py in the directories of the model)
detect_project_name(dir) ==
    IF PackageLoaded(dir) /\ PackageJson(dir.manifest).name # ""
    THEN PackageJson(dir.manifest).name
    ELSE ProjectPath[Len(ProjectPath)]

\* _detect_main_language: os.walk gives nothing for a directory that is
\* missing or not to be listed; of the names of the model only util.py has
\* an extension of language_map
detect_main_language(dir) ==
    IF "util.py" \in dir.names THEN "python" ELSE "javascript"

\* lines 174-191 of _detect_framework: os.listdir outside any try, then
\* the .csproj files read ('App.csproj' of the model names Xamarin)
CsprojFramework(dir) ==
    IF dir.listing # "ok"
    THEN [raised |-> dir.listing, framework |-> "none"]
    ELSE IF "App.csproj" \in dir.names
    THEN [raised |-> "none", framework |-> "xamarin"]
    ELSE [raised |-> "none", framework |-> "none"]

\* _detect_framework: package.json first, then requirements.txt (the one
\* of the model names flask), then the .csproj files
detect_framework(dir) ==
    IF PackageLoaded(dir) /\ "react" \in PackageJson(dir.manifest).dependencies
    THEN [raised |-> "none", framework |-> "react"]
    ELSE IF "requirements.txt" \in dir.names
    THEN [raised |-> "none", framework |-> "flask"]
    ELSE CsprojFramework(dir)

\* _detect_project_type: no dependency of the manifests of the model is a
\* mobile or desktop framework; of their names "@scope/app" starts with
\* '@' and none holds '-lib'
rules_detect_project_type(dir) ==
    IF PackageLoaded(dir) /\ PackageJson(dir.manifest).name \in {"@scope/app"}
    THEN "library"
    ELSE IF "index.html" \in dir.names THEN "web application"
    ELSE "application"

\* rules_analyzer.RulesAnalyzer.analyze_project_for_rules: the dict is
\* built with no try around it
analyze_project_for_rules(dir) ==
    IF detect_framework(dir).raised # "none"
    THEN [raised |-> detect_framework(dir).raised, info |-> "none"]
    ELSE [raised |-> "none",
          info |-> [name |-> detect_project_name(dir),
                    version |-> "1.0.0",
                    language |-> detect_main_language(dir),
                    framework |-> detect_framework(dir).framework,
                    type |-> rules_detect_project_type(dir)]]

\* the project directories: listed, missing ("FileNotFoundError" is what
\* os.listdir raises on it) or not to be listed
RulesDirs ==
    { d \in [listing : {"ok"},
             names : SUBSET {"package.json", "index.html", "util.py",
                             "App.csproj", "requirements.txt"},
             manifest : {"react", "plain", "malformed"}] :
         "package.json" \notin d.names => d.manifest = "plain" } \cup
    { [listing |-> l, names |-> {}, manifest |-> "plain"] :
         l \in {"FileNotFoundError", "PermissionError"} }

\* no call made
NotAnalyzed == [raised |-> "none", info |-> "none"]

StartRules ==
    /\ rules_dir \in RulesDirs
    /\ rules_info = [definition |-> "none", result |-> NotAnalyzed]

\* no project under the rules analyzer
IdleRules ==
    /\ rules_dir = [listing |-> "FileNotFoundError", names |-> {},
                    manifest |-> "plain"]
    /\ rules_info = [definition |-> "none", result |-> NotAnalyzed]

\* analyzers.RulesAnalyzer(project_path).analyze_project_for_rules()
AnalyzersAnalyzeForRules ==
    /\ rules_info' = [definition |-> "analyzers",
                      result |-> analyzers_analyze_project_for_rules(rules_dir)]
    /\ UNCHANGED rules_dir
    /\ UNCHANGED outsideRules

\* rules_analyzer.RulesAnalyzer(project_path).analyze_project_for_rules()
AnalyzeForRules ==
    /\ rules_info' = [definition |-> "rules_analyzer",
                      result |-> analyze_project_for_rules(rules_dir)]
    /\ UNCHANGED rules_dir
    /\ UNCHANGED outsideRules

\* ------------------------------------------------------------------------
\* RulesWatcher
\* ------------------------------------------------------------------------
\* self.update_delay
update_delay == 5

\* time.time() when the watcher is made: seconds since 1970, far more than
\* update_delay
WatchStart == 1000

\* trigger_files
trigger_files ==
    {"Focus.md", "package.json", "requirements.txt", "CMakeLists.txt",
     ".csproj", "composer.json", "build.gradle", "pom.xml"}

\* file_path.endswith('.csproj'), by the last name of the paths of the
\* model
endswith_csproj(file_path) ==
    file_path[Len(file_path)] \in {".csproj", "App.csproj"}

\* (a slip: every file triggers an update)
should_process_any_file(file_path) == TRUE

\* _should_process_file(file_path); os.path.basename is the last name
should_process_file(file_path) ==
    file_path[Len(file_path)] \in trigger_files \/ endswith_csproj(file_path)

\* the events the observer delivers: [is_directory, src_path]
WatchEvents ==
    [is_directory : BOOLEAN,
     src_path : { <<"proj", "package.json">>, <<"proj", "Focus.md">>,
                  <<"proj", "app", "App.csproj">>, <<"proj", "app.js">>,
                  <<"proj", "App.csproj.user">> }]

\* _update_rules: outcome is "none" or the exception that
\* detect_project_type or generate_rules_file raises; except Exception
\* catches it
update_rules(outcome) == IF outcome \in {"none", "OSError"} THEN "none" ELSE outcome

\* no event handled yet
NoEvent ==
    [time |-> 0, event |-> [is_directory |-> TRUE, src_path |-> << >>],
     verdict |-> "none"]

StartWatch ==
    /\ watch_clock = WatchStart
    /\ last_update = 0
    /\ invocations = << >>
    /\ watch_error = "none"
    /\ last_event = NoEvent

\* (a slip: a trigger-file event that comes too early moves last_update)
on_modified_sliding(event, current_time, last) ==
    IF event.is_directory
    THEN [verdict |-> "directory", last_update |-> last]
    ELSE IF ~should_process_file(event.src_path)
    THEN [verdict |-> "not_trigger", last_update |-> last]
    ELSE IF current_time - last < update_delay
    THEN [verdict |-> "debounced", last_update |-> current_time]
    ELSE [verdict |-> "accepted", last_update |-> current_time]

\* on_modified(event) at current_time up to the call of _update_rules:
\* which return was taken, "accepted" when none, and self.last_update
on_modified(event, current_time, last) ==
    IF event.is_directory
    THEN [verdict |-> "directory", last_update |-> last]
    ELSE IF ~should_process_file(event.src_path)
    THEN [verdict |-> "not_trigger", last_update |-> last]
    ELSE IF current_time - last < update_delay
    THEN [verdict |-> "debounced", last_update |-> last]
    ELSE [verdict |-> "accepted", last_update |-> current_time]

\* what handling an event leaves, r being what on_modified did before
\* _update_rules and outcome how the regeneration ends
Handled(event, r, outcome) ==
    /\ last_event' = [time |-> watch_clock, event |-> event, verdict |-> r.verdict]
    /\ last_update' = r.last_update
    /\ IF r.verdict = "accepted"
       THEN /\ invocations' =
                  Append(invocations,
                         [time |-> watch_clock, event |-> event,
                          outcome |-> outcome])
            /\ watch_error' = update_rules(outcome)
       ELSE /\ watch_error' = "none"
            /\ UNCHANGED invocations

\* on_modified(event), the regeneration ending as outcome says
OnModified ==
    /\ Len(invocations) < MaxInvocations
    /\ \E event \in WatchEvents, outcome \in {"none", "OSError"} :
          Handled(event, on_modified(event, watch_clock, last_update), outcome)
    /\ UNCHANGED watch_clock
    /\ UNCHANGED outsideWatch

\* time passes between events
WatchWait ==
    /\ \E seconds \in {1, update_delay - 1} :
          /\ watch_clock + seconds <= WatchStart + MaxWatchSeconds
          /\ watch_clock' = watch_clock + seconds
    /\ UNCHANGED <<last_update, invocations, watch_error, last_event>>
    /\ UNCHANGED outsideWatch

\* ------------------------------------------------------------------------
\* focus.py: main() in the loop of __main__
\* ------------------------------------------------------------------------
\* load_config(): the dict of config.json, or None after an exception
\* ("malformed": json.load raises)
focus_load_config(env) == IF env.config = "malformed" THEN "None" ELSE "config"

\* script_dir is bound when the except branch of main() reads it: the
\* assignment comes after 'raise Exception("Failed to load configuration")'
HandlerBound(config) == config # "None"

\* the except branch of main(): the message is appended to the error log
\* (open(error_log, 'a') raises when the logs directory cannot be written)
MainHandler(env, message, bound) ==
    IF ~bound
    THEN [raised |-> "UnboundLocalError", wrote |-> FALSE, logged |-> << >>]
    ELSE IF env.logs = "unwritable"
    THEN [raised |-> "PermissionError", wrote |-> FALSE, logged |-> << >>]
    ELSE [raised |-> "none", wrote |-> FALSE, logged |-> <<message>>]

\* main(): [raised, wrote, logged]; write_focus_file is called in every
\* cycle that gets to it, whatever the Focus file holds
focus_main(env) ==
    IF focus_load_config(env) = "None"
    THEN MainHandler(env, "Failed to load configuration",
                     HandlerBound(focus_load_config(env)))
    ELSE IF env.project = "missing"
    THEN MainHandler(env, "FileNotFoundError", TRUE)
    ELSE IF env.focus = "unwritable"
    THEN MainHandler(env, "PermissionError", TRUE)
    ELSE [raised |-> "none", wrote |-> TRUE, logged |-> << >>]

\* what main() may meet on the disk
LoopEnvs ==
    [config : {"ok", "malformed"}, project : {"present", "missing"},
     focus : {"writable", "unwritable"}, logs : {"writable", "unwritable"}]

\* the loop is entered after load_config() gave a configuration
StartLoop ==
    /\ loop_env \in { env \in LoopEnvs : env.config = "ok" }
    /\ project_tree = 0
    /\ tree_changes = 0
    /\ cycles = 0
    /\ focus_file = [exists |-> FALSE]
    /\ focus_writes = 0
    /\ error_log = << >>
    /\ loop_error = "none"

\* focus.py not started
IdleLoop ==
    /\ loop_env = [config |-> "ok", project |-> "present",
                   focus |-> "writable", logs |-> "writable"]
    /\ project_tree = 0
    /\ tree_changes = 0
    /\ cycles = 0
    /\ focus_file = [exists |-> FALSE]
    /\ focus_writes = 0
    /\ error_log = << >>
    /\ loop_error = "none"

\* what a cycle leaves, given what main() did
CycleDone(r) ==
    /\ loop_error' = r.raised
    /\ error_log' = error_log \o r.logged
    /\ focus_writes' = IF r.wrote THEN focus_writes + 1 ELSE focus_writes
    /\ focus_file' = IF r.wrote
                     THEN [exists |-> TRUE, body |-> project_tree,
                           timestamp |-> cycles]
                     ELSE focus_file

\* one turn of 'while True: main(); time.sleep(...)'; an exception out of
\* main() ends the loop
MainCycle ==
    /\ loop_error = "none"
    /\ cycles < MaxCycles
    /\ cycles' = cycles + 1
    /\ CycleDone(focus_main(loop_env))
    /\ UNCHANGED <<loop_env, project_tree, tree_changes>>
    /\ UNCHANGED outsideLoop

\* between two cycles config.json, the project directory, the Focus file
\* or the logs directory is changed, removed or protected
ChangeEnv ==
    /\ loop_error = "none"
    /\ loop_env' \in LoopEnvs \ {loop_env}
    /\ UNCHANGED <<project_tree, tree_changes, cycles, focus_file,
                   focus_writes, error_log, loop_error>>
    /\ UNCHANGED outsideLoop

\* between two cycles a file of the project is added, removed or edited
ChangeTree ==
    /\ loop_error = "none"
    /\ tree_changes < MaxTreeChanges
    /\ tree_changes' = tree_changes + 1
    /\ project_tree' = project_tree + 1
    /\ UNCHANGED <<loop_env, cycles, focus_file, focus_writes, error_log,
                   loop_error>>
    /\ UNCHANGED outsideLoop

\* ------------------------------------------------------------------------
\* RulesGenerator.generate_rules_file
\* ------------------------------------------------------------------------
\* A template object is [project, prefer, categories]: the dict under
\* 'project', the list under ai_behavior.code_generation.style.prefer and
\* the keys of the dict under 'ai_behavior'. These are the parts that
\* template.copy(), a shallow copy, shares with the template.
\* json.load of templates/default.cursorrules.json
TemplateFile ==
    [project |-> [name |-> "Template Project"],
     prefer |-> <<"clean code">>,
     categories |-> {"code_generation", "testing"}]

\* _get_default_template()
DefaultTemplate ==
    [project |-> [name |-> "Unknown Project", version |-> "1.0.0",
                  language |-> "javascript", framework |-> "none",
                  type |-> "application"],
     prefer |-> << >>,
     categories |-> {"code_generation", "testing"}]

\* (a slip: the template object of the call before is used again)
load_template_once(inputs, kept) ==
    IF kept # << >> THEN kept[1]
    ELSE IF inputs.template = "file" THEN TemplateFile ELSE DefaultTemplate

\* _load_template(): the file is read in every call, and a new default
\* is made when it cannot be read; kept is the object of the call before
load_template(inputs, kept) ==
    IF inputs.template = "file" THEN TemplateFile ELSE DefaultTemplate

\* the dict framework_rules of _get_framework_rules (the first two rules
\* stand for each list)
framework_rules ==
       "react" :>
          <<"use functional components over class components",
            "prefer hooks for state management">>
    @@ "react-ts" :>
          <<"use proper TypeScript interfaces for props",
            "leverage generic components">>
    @@ "next" :>
          <<"use proper page routing",
            "implement server-side rendering">>
    @@ "next-ts" :>
          <<"use TypeScript path aliases",
            "implement proper type-safe API routes">>
    @@ "vue" :>
          <<"use composition API",
            "prefer ref/reactive for state management">>
    @@ "vue-ts" :>
          <<"use proper TypeScript decorators",
            "implement type-safe props">>
    @@ "angular" :>
          <<"follow angular style guide",
            "use observables for async operations">>
    @@ "django" :>
          <<"follow Django best practices",
            "use class-based views when appropriate">>
    @@ "flask" :>
          <<"use Flask blueprints for organization",
            "implement proper error handling">>
    @@ "laravel" :>
          <<"follow Laravel best practices",
            "use Laravel naming conventions">>
    @@ "symfony" :>
          <<"follow Symfony best practices",
            "use dependency injection">>
    @@ "wordpress" :>
          <<"follow WordPress coding standards",
            "use WordPress hooks properly">>
    @@ "swiftui" :>
          <<"use SwiftUI view modifiers",
            "implement proper state management">>
    @@ "jetpack compose" :>
          <<"use Compose best practices",
            "implement proper state hoisting">>
    @@ "spring boot" :>
          <<"follow Spring Boot conventions",
            "use dependency injection">>
    @@ "fastapi" :>
          <<"use proper dependency injection",
            "implement async/await patterns">>
    @@ "express" :>
          <<"use proper middleware patterns",
            "implement proper route handlers">>
    @@ "nest" :>
          <<"use proper decorators",
            "implement proper dependency injection">>
    @@ "nuxt" :>
          <<"use proper Nuxt.js modules",
            "implement proper SSR strategies">>
    @@ "gatsby" :>
          <<"use proper Gatsby plugins",
            "implement proper data sourcing">>
    @@ "svelte" :>
          <<"use proper component structure",
            "implement proper state management">>

\* the dict language_rules of _get_language_rules, likewise
language_rules ==
       "python" :> <<"follow PEP 8 guidelines", "use type hints">>
    @@ "javascript" :> <<"use modern ES features", "prefer arrow functions">>
    @@ "typescript" :>
          <<"use strict type checking",
            "leverage type inference">>
    @@ "tsx" :>
          <<"use proper component typing",
            "implement proper event handling types">>
    @@ "java" :>
          <<"follow Java code conventions",
            "use proper access modifiers">>
    @@ "go" :> <<"follow Go idioms", "use proper error handling">>
    @@ "rust" :> <<"follow Rust idioms", "use proper ownership patterns">>
    @@ "php" :> <<"follow PSR standards", "use type declarations">>
    @@ "cpp" :> <<"follow modern C++ guidelines", "use RAII principles">>
    @@ "csharp" :>
          <<"follow C# coding conventions",
            "use LINQ when appropriate">>
    @@ "ruby" :> <<"follow Ruby style guide", "use proper block syntax">>
    @@ "kotlin" :> <<"use proper null safety", "implement proper coroutines">>
    @@ "swift" :> <<"use proper optionals", "implement proper protocols">>
    @@ "lua" :> <<"follow Lua style guide", "use proper table management">>

\* framework_rules.get(framework.lower(), []): a new list in every call (the
\* names detect_language_and_framework gives are in lower case)
get_framework_rules(framework) ==
    IF framework \in DOMAIN framework_rules THEN framework_rules[framework]
    ELSE << >>

\* language_rules.get(language.lower(), [])
get_language_rules(language) ==
    IF language \in DOMAIN language_rules THEN language_rules[language]
    ELSE << >>

\* the keys of _get_project_type_rules(project_type)
get_project_type_rules(project_type) ==
    CASE project_type = "web application" ->
           {"accessibility", "performance", "security", "testing"}
      [] project_type = "library" -> {"documentation", "testing", "packaging"}
      [] OTHER -> {}

\* _detect_testing_frameworks(): from the dependencies of package.json
detect_testing_frameworks(inputs) ==
    IF inputs.package_json = "cypress" THEN <<"cypress">> ELSE <<"jest">>

\* rules['project'].update({...}): the keys of both, the new values first
Update(d, new) ==
    [k \in DOMAIN d \cup DOMAIN new |-> IF k \in DOMAIN new THEN new[k] ELSE d[k]]

\* the template object after _customize_template worked on its shallow
\* copy: the project dict updated, the prefer list extended, the
\* categories of the project type and the four new ones added
CustomizedTemplate(template, project_info) ==
    [project |-> Update(template.project,
                        [type |-> project_info.type,
                         language |-> project_info.language,
                         framework |-> project_info.framework,
                         description |-> project_info.description]),
     prefer |-> template.prefer \o
                (IF project_info.framework # "none"
                 THEN get_framework_rules(project_info.framework) ELSE << >>) \o
                get_language_rules(project_info.language),
     categories |-> template.categories \cup
                    get_project_type_rules(project_info.type) \cup
                    {"code_review", "documentation", "refactoring",
                     "optimization"}]

\* the document json.dump writes: rules after _customize_template
RulesDocument(customized, inputs, t) ==
    [version |-> "1.0",
     last_updated |-> strftime(t),
     project |-> customized.project,
     prefer |-> customized.prefer,
     categories |-> customized.categories,
     testing_frameworks |-> detect_testing_frameworks(inputs),
     project_structure |-> inputs.focus_md]

\* what the generator is called with and finds: the template file, the
\* project_info, package.json and Focus.md (TRUE: it is there, with
\* components in it)
GenInputs ==
    [template : {"file", "missing"},
     project_info : [type : {"web application", "generic"},
                     language : {"python", "unknown"},
                     framework : {"react", "none"},
                     description : {"Generic Project"}],
     package_json : {"cypress", "absent"},
     focus_md : BOOLEAN]

StartGen ==
    /\ gen_inputs \in GenInputs
    /\ gen_clock = 0
    /\ gen_template = << >>
    /\ rules_files = << >>

\* no rules generator
IdleGen ==
    /\ gen_inputs = [template |-> "missing",
                     project_info |-> [type |-> "generic",
                                       language |-> "unknown",
                                       framework |-> "none",
                                       description |-> "Generic Project"],
                     package_json |-> "absent", focus_md |-> FALSE]
    /\ gen_clock = 0
    /\ gen_template = << >>
    /\ rules_files = << >>

\* what a call leaves, given the template object it worked on
Generated(customized) ==
    /\ gen_template' = <<customized>>
    /\ rules_files' =
          Append(rules_files, RulesDocument(customized, gen_inputs, gen_clock))

\* one call of generate_rules_file(project_info)
GenerateRules ==
    /\ Len(rules_files) < MaxRegenerations
    /\ Generated(CustomizedTemplate(load_template(gen_inputs, gen_template),
                                    gen_inputs.project_info))
    /\ UNCHANGED <<gen_inputs, gen_clock>>
    /\ UNCHANGED outsideGen

\* time passes between calls
GenTick ==
    /\ gen_clock < MaxTime
    /\ gen_clock' = gen_clock + 1
    /\ UNCHANGED <<gen_inputs, gen_template, rules_files>>
    /\ UNCHANGED outsideGen

\* ------------------------------------------------------------------------
\* rules_watcher.RulesWatcher._update_rules on a watched directory
\* ------------------------------------------------------------------------
\* the watched directories: a source file or none, a manifest or none, and
\* the frameworks the manifest mentions
WatchedDirs ==
    { [names |-> source \cup manifest, mentions |-> m] :
         source \in {{}} \cup { {f} : f \in {"util.py", "app.js", "app.ts",
                        "App.java", "index.php", "app.rb", "main.go",
                        "main.rs", "main.cpp", "Program.cs", "init.lua"} },
         manifest \in {{}, {"package.json"}, {"requirements.txt"}},
         m \in {{}} \cup { {Frameworks[i]} : i \in DOMAIN Frameworks }
                     \cup {{"react", "express"}} }

\* detect_project_type(self.project_path) for a directory that is listed
detected_project_info(dir) ==
    LET project_type == Fallback(TypeLoop(1, "generic", dir.names), dir.names)
        found == detect_language_and_framework(dir.names, dir.mentions)
    IN  [type |-> project_type, language |-> found.language,
         framework |-> found.framework,
         description |-> TypeDescription(project_type)]

\* a rules generator made for a watched directory, nothing generated yet
StartRegenerate ==
    /\ gen_inputs \in { inputs \in GenInputs :
                           /\ inputs.project_info.type = "generic"
                           /\ inputs.project_info.language = "unknown"
                           /\ inputs.project_info.framework = "none" }
    /\ gen_clock = 0
    /\ gen_template = << >>
    /\ rules_files = << >>

\* what _update_rules leaves: the document of generate_rules_file for the
\* project_info found
Regenerated(project_info) ==
    /\ gen_inputs' = [gen_inputs EXCEPT !.project_info = project_info]
    /\ Generated(CustomizedTemplate(load_template(gen_inputs, gen_template),
                                    project_info))

\* _update_rules() on a watched directory as it is found
RegenerateRules ==
    /\ Len(rules_files) < MaxRuleUpdates
    /\ \E dir \in WatchedDirs : Regenerated(detected_project_info(dir))
    /\ UNCHANGED gen_clock
    /\ UNCHANGED outsideGen

\* ------------------------------------------------------------------------
\* auto_updater.AutoUpdater
\* ------------------------------------------------------------------------
\* datetime.now() has a resolution finer than the second that
\* "%Y-%m-%d %H:%M:%S" keeps: the clock counts ticks
TicksPerSecond == 2

\* self.update_interval, in seconds
update_interval == 24 * 60 * 60

\* check_time.last_check_strftime("%Y-%m-%d %H:%M:%S"): the whole seconds of a time
last_check_strftime(ticks) == ticks \div TicksPerSecond

\* datetime.strptime(text, "%Y-%m-%d %H:%M:%S"): the time a text names
strptime(seconds) == seconds * TicksPerSecond

\* .last_update_check: absent, a time as _save_last_check_time writes it,
\* or a text strptime does not parse
NoLastCheck == [kind |-> "absent", seconds |-> 0]
GarbledLastCheck == [kind |-> "garbled", seconds |-> 0]

\* _save_last_check_time(check_time)
save_last_check_time(check_time) ==
    [kind |-> "time", seconds |-> last_check_strftime(check_time)]

\* _should_check_updates at current_time with the file as it is:
\* [should_check, file]
should_check_updates_always(file, current_time) ==
    [should_check |-> TRUE, file |-> save_last_check_time(current_time)]
should_check_updates(file, current_time) ==
    IF file.kind = "absent"
    THEN [should_check |-> TRUE, file |-> save_last_check_time(current_time)]
    ELSE IF file.kind = "garbled"
    THEN [should_check |-> TRUE, file |-> save_last_check_time(current_time)]
    ELSE LET last_check == strptime(file.seconds)
             time_diff == current_time - last_check
             should_check == time_diff >= update_interval * TicksPerSecond
         IN  [should_check |-> should_check,
              file |-> IF should_check THEN save_last_check_time(current_time)
                       ELSE file]

\* the components of a version text that int() converts, and their values
IntOf == [t \in {"0", "1", "2", "9"} |->
             CASE t = "0" -> 0 [] t = "1" -> 1 [] t = "2" -> 2 [] t = "9" -> 9]

RECURSIVE CompareParts(_, _, _)
\* for l, c in zip(latest, current): i is the pair looked at
CompareParts(latest, current, i) ==
    IF i > Len(latest) \/ i > Len(current)
    THEN [raised |-> "none", value |-> Len(latest) > Len(current)]
    ELSE IF latest[i] \notin DOMAIN IntOf \/ current[i] \notin DOMAIN IntOf
    THEN [raised |-> "ValueError", value |-> FALSE]
    ELSE IF IntOf[latest[i]] > IntOf[current[i]]
    THEN [raised |-> "none", value |-> TRUE]
    ELSE IF IntOf[latest[i]] < IntOf[current[i]]
    THEN [raised |-> "none", value |-> FALSE]
    ELSE CompareParts(latest, current, i + 1)

\* _is_newer_version(latest, current): a version text is the sequence of
\* its components between the dots, a tag may have "v" in front
is_different_version(latest, current) ==
    [raised |-> "none", value |-> LStrip(latest, {"v"}) # current]
is_newer_version(latest, current) ==
    CompareParts(LStrip(latest, {"v"}), current, 1)

\* version.txt: [exists, text]
NoVersionFile == [exists |-> FALSE, text |-> << >>]

\* _get_current_version
get_current_version(version_file) ==
    IF version_file.exists THEN version_file.text ELSE <<"0", "0", "0">>

\* what the releases/latest request gives: [status, release], status "200",
\* "404" or the exception requests.get raises
NoRelease == [tag_name |-> << >>, zipball_url |-> ""]
Tags ==
    { <<"v", "1", "0">>, <<"1", "0">>, <<"v", "1", "1">>, <<"v", "0", "9">>,
      <<"v", "1", "0", "0">>, <<"v", "1", "beta">> }
Releases ==
    [tag_name : Tags,
     zipball_url : {"https://api.github.com/repos/RenjiYuusei/CursorFocus/zipball"}]
Responses ==
    [status : {"200"}, release : Releases]
       \cup [status : {"404", "ConnectionError"}, release : {NoRelease}]
NoResponse == [status |-> "none", release |-> NoRelease]

\* what check_for_updates returns: None or the release
ReturnedNone == [returned |-> "None", release |-> NoRelease]
ReturnedRelease(r) == [returned |-> "release", release |-> r]

\* check_for_updates at current_time: [result, file, contacted]
check_for_updates(file, current_time, version_file, response) ==
    LET s == should_check_updates(file, current_time)
    IN  IF ~s.should_check
        THEN [result |-> ReturnedNone, file |-> s.file, contacted |-> FALSE]
        ELSE IF response.status # "200"
        THEN [result |-> ReturnedNone, file |-> s.file, contacted |-> TRUE]
        ELSE LET newer == is_newer_version(response.release.tag_name,
                                           get_current_version(version_file))
             IN  [result |-> IF newer.raised = "none" /\ newer.value
                             THEN ReturnedRelease(response.release)
                             ELSE ReturnedNone,
                  file |-> s.file, contacted |-> TRUE]

\* the installation directory: the state of each item the archive holds
\* ("old", "new", or "missing" for a removed directory)
Items == {"focus.py", "config.py", "templates", "docs"}
isfile(item) == item \in {"focus.py", "config.py"}
OldInstallation == [item \in Items |-> "old"]

\* what can go wrong in update: nothing, requests.get raising, a status other
\* than 200, zipfile.ZipFile or extractall raising, a copy raising
UpdateFaults ==
    {"none", "ConnectionError", "404", "BadZipFile", "extractall", "copy"}

\* _extract_and_update(zip_path), failing as fault says; copied are the
\* items already copied when item failing is reached, removed tells that
\* shutil.rmtree(dst) was done before copytree raised:
\* [raised, installed, temp_dir]
extract_and_update(inst, temp, fault, copied, failing, removed) ==
    IF fault = "BadZipFile"
    THEN [raised |-> TRUE, installed |-> inst, temp_dir |-> temp]
    ELSE IF fault = "extractall"
    THEN [raised |-> TRUE, installed |-> inst, temp_dir |-> TRUE]
    ELSE IF fault = "copy"
    THEN [raised |-> TRUE,
          installed |-> [item \in Items |->
                           IF item \in copied THEN "new"
                           ELSE IF item = failing /\ ~isfile(item) /\ removed
                           THEN "missing"
                           ELSE inst[item]],
          temp_dir |-> TRUE]
    ELSE [raised |-> FALSE, installed |-> [item \in Items |-> "new"],
          temp_dir |-> FALSE]

\* _update_version(version)
update_version(version) == [exists |-> TRUE, text |-> LStrip(version, {"v"})]

\* update(release_info), failing as fault says:
\* [returned, installed, update_zip, temp_dir, version_file]
update(release_info, inst, zip, temp, version_file, fault, copied, failing, removed) ==
    IF fault \in {"ConnectionError", "404"}
    THEN [returned |-> "False", installed |-> inst, update_zip |-> zip,
          temp_dir |-> temp, version_file |-> version_file]
    ELSE LET x == extract_and_update(inst, temp, fault, copied, failing, removed)
         IN  IF x.raised
             THEN [returned |-> "False", installed |-> x.installed,
                   update_zip |-> TRUE, temp_dir |-> x.temp_dir,
                   version_file |-> version_file]
             ELSE [returned |-> "True", installed |-> x.installed,
                   update_zip |-> FALSE, temp_dir |-> x.temp_dir,
                   version_file |-> update_version(release_info.tag_name)]

\* the installations the checks start from
StartVersions ==
    {NoVersionFile, [exists |-> TRUE, text |-> <<"1", "0">>],
     [exists |-> TRUE, text |-> <<"1", "0", "0">>]}

IdleUpdater ==
    /\ upd_now = 1
    /\ last_check_file = NoLastCheck
    /\ version_txt = NoVersionFile
    /\ checks = << >>
    /\ installed = OldInstallation
    /\ update_zip = FALSE
    /\ temp_dir = FALSE
    /\ update_returned = "none"

StartChecks ==
    /\ upd_now \in {0, 1}
    /\ last_check_file \in {NoLastCheck, GarbledLastCheck, save_last_check_time(0)}
    /\ version_txt \in StartVersions
    /\ checks = << >>
    /\ installed = OldInstallation
    /\ update_zip = FALSE
    /\ temp_dir = FALSE
    /\ update_returned = "none"

StartUpdates ==
    /\ upd_now = 1
    /\ last_check_file = NoLastCheck
    /\ version_txt \in StartVersions
    /\ checks = << >>
    /\ installed = OldInstallation
    /\ update_zip = FALSE
    /\ temp_dir = FALSE
    /\ update_returned = "none"

\* a call of check_for_updates, the remote answering with response if asked
CheckForUpdates ==
    /\ Len(checks) < MaxChecks
    /\ \E response \in Responses :
          LET r == check_for_updates(last_check_file, upd_now, version_txt,
                                     response)
          IN  /\ last_check_file' = r.file
              /\ checks' =
                    Append(checks,
                           [time |-> upd_now, before |-> last_check_file,
                            after |-> r.file, contacted |-> r.contacted,
                            response |-> IF r.contacted THEN response
                                         ELSE NoResponse,
                            result |-> r.result])
    /\ UNCHANGED <<upd_now, version_txt, installed, update_zip, temp_dir,
                   update_returned>>
    /\ UNCHANGED outsideUpdater

\* time passes between calls
UpdaterWait ==
    /\ \E ticks \in {update_interval * TicksPerSecond - 1,
                     update_interval * TicksPerSecond} :
          /\ upd_now + ticks <= MaxUpdaterDays * update_interval * TicksPerSecond + 2
          /\ upd_now' = upd_now + ticks
    /\ UNCHANGED <<last_check_file, version_txt, checks, installed, update_zip,
                   temp_dir, update_returned>>
    /\ UNCHANGED outsideUpdater

\* a call of update with a release
InstallUpdate ==
    /\ \E release_info \in Releases, fault \in UpdateFaults,
          copied \in SUBSET Items, failing \in Items, removed \in BOOLEAN :
          /\ fault = "copy" => failing \notin copied
          /\ fault # "copy" => (copied = {} /\ failing = "focus.py" /\ ~removed)
          /\ LET u == update(release_info, installed, update_zip, temp_dir,
                             version_txt, fault, copied, failing, removed)
             IN  /\ update_returned' = u.returned
                 /\ installed' = u.installed
                 /\ update_zip' = u.update_zip
                 /\ temp_dir' = u.temp_dir
                 /\ version_txt' = u.version_file
    /\ UNCHANGED <<upd_now, last_check_file, checks>>
    /\ UNCHANGED outsideUpdater

\* ------------------------------------------------------------------------
\* project_detector._do_scan
\* ------------------------------------------------------------------------
\* the directories under the root of a scan, as paths relative to it
TreePaths ==
    { << >>, <<"a">>, <<"a", "b">>, <<"a", "b", "c">>, <<"node_modules">> }

\* os.listdir(current_path) filtered by os.path.isdir, in the order of the
\* listing
Subdirectories(current_path) ==
    CASE current_path = << >> -> << <<"a">>, <<"node_modules">> >>
      [] current_path = <<"a">> -> << <<"a", "b">> >>
      [] current_path = <<"a", "b">> -> << <<"a", "b", "c">> >>
      [] OTHER -> << >>

\* what a directory of the tree holds: [listing, names]
TreeDirs ==
    { [listing |-> "ok", names |-> n] :
         n \in { {}, {"package.json"}, {"README.md"}, {"util.py"} } }
       \cup { [listing |-> "PermissionError", names |-> {}] }

\* _config.get('ignored_directories', []), of which the tree has one
scan_ignored_dirs == {"node_modules"}

\* project_type != 'generic', project_type being the dict that
\* detect_project_type returned: a dict is never equal to a str
NotGeneric(project_type) == TRUE

\* the dict appended for a directory (name, description, language and
\* framework are left out)
FoundProject(path, project_type) == [path |-> path, type |-> project_type]

RECURSIVE scan_directory(_, _, _, _, _)
RECURSIVE ScanItems(_, _, _, _, _, _)
\* the loop of _scan_directory over the items, from item i on
ScanItems(tree, items, i, current_depth, max_depth, projects) ==
    IF i > Len(items) THEN projects
    ELSE LET item_path == items[i]
             project_type == detect_project_type(tree[item_path])
         IN  IF NotGeneric(project_type)
             THEN ScanItems(tree, items, i + 1, current_depth, max_depth,
                            Append(projects,
                                   FoundProject(item_path, project_type)))
             ELSE ScanItems(tree, items, i + 1, current_depth, max_depth,
                            scan_directory(tree, item_path, current_depth + 1,
                                           max_depth, projects))

\* _scan_directory(current_path, current_depth), projects being the list
\* it appends to
scan_directory(tree, current_path, current_depth, max_depth, projects) ==
    IF current_depth > max_depth THEN projects
    ELSE IF \E i \in DOMAIN current_path : current_path[i] \in scan_ignored_dirs
    THEN projects
    ELSE IF tree[current_path].listing # "ok" THEN projects
    ELSE ScanItems(tree, Subdirectories(current_path), 1, current_depth,
                   max_depth, projects)

\* _do_scan(root_path, max_depth, None): the list of projects
do_scan_tree(tree, max_depth) ==
    LET project_type == detect_project_type(tree[<< >>])
    IN  scan_directory(tree, << >>, 0, max_depth,
                       IF NotGeneric(project_type)
                       THEN <<FoundProject(<< >>, project_type)>>
                       ELSE << >>)

NotScanned == [done |-> FALSE, projects |-> << >>]

StartTree ==
    /\ dir_tree \in [TreePaths -> TreeDirs]
    /\ tree_depth \in 0..MaxScanDepth
    /\ tree_scan = NotScanned

\* no tree under scan
IdleTree ==
    /\ dir_tree = [p \in TreePaths |-> [listing |-> "ok", names |-> {}]]
    /\ tree_depth = 0
    /\ tree_scan = NotScanned

\* one call of _do_scan on the tree
DoScan ==
    /\ ~tree_scan.done
    /\ tree_scan' = [done |-> TRUE, projects |-> do_scan_tree(dir_tree, tree_depth)]
    /\ UNCHANGED <<dir_tree, tree_depth>>
    /\ UNCHANGED outsideTree

\* ------------------------------------------------------------------------
\* rules_watcher.ProjectWatcherManager
\* ------------------------------------------------------------------------
\* the paths add_project is called with, and those that exist
ProjectPaths == {"proj", "/home/proj", "/home/other", "/home/gone"}
ExistingPaths == {"proj", "/home/proj", "/home/other"}

\* os.path.abspath(project_path), the working directory being /home
abspath(project_path) ==
    IF project_path = "proj" THEN "/home/proj" ELSE project_path

\* the project_id arguments; "" stands for None and the empty string, the
\* values that 'project_id or ...' replaces
ProjectIds == {"", "x", "y"}

\* the manager: observers and watchers by id, and the Observer objects made
\* so far with the path scheduled and their state; observers[id] is the
\* number of its object
NewManager == [observers |-> << >>, watchers |-> << >>, threads |-> << >>]

\* d[key] = value
SetItem(d, key, value) ==
    [k \in DOMAIN d \cup {key} |-> IF k = key THEN value ELSE d[k]]

\* del d[key]
DelItem(d, key) == [k \in DOMAIN d \ {key} |-> d[k]]

\* add_project(project_path, project_id), observer.start() raising when
\* start_fails: [raised, manager]
add_project(m, project_path, project_id, start_fails) ==
    IF project_path \notin ExistingPaths
    THEN [raised |-> "ValueError", manager |-> m]
    ELSE LET id == IF project_id # "" THEN project_id ELSE abspath(project_path)
         IN  IF id \in DOMAIN m.observers
             THEN [raised |-> "none", manager |-> m]
             ELSE IF start_fails
             THEN [raised |-> "OSError", manager |-> m]
             ELSE [raised |-> "none",
                   manager |->
                      [observers |-> SetItem(m.observers, id, Len(m.threads) + 1),
                       watchers |-> SetItem(m.watchers, id,
                                            [project_path |-> project_path,
                                             project_id |-> id]),
                       threads |-> Append(m.threads,
                                          [path |-> project_path,
                                           state |-> "started"])]]

\* (a slip: the watcher of the project is kept)
remove_project_observer_only(m, project_id) ==
    IF project_id \notin DOMAIN m.observers THEN m
    ELSE [observers |-> DelItem(m.observers, project_id),
          watchers |-> m.watchers,
          threads |-> [m.threads EXCEPT ![m.observers[project_id]].state =
                                            "stopped"]]

\* remove_project(project_id): the manager after it
remove_project(m, project_id) ==
    IF project_id \notin DOMAIN m.observers THEN m
    ELSE [observers |-> DelItem(m.observers, project_id),
          watchers |-> DelItem(m.watchers, project_id),
          threads |-> [m.threads EXCEPT ![m.observers[project_id]].state =
                                            "stopped"]]

RECURSIVE RemoveEach(_, _)
\* for project_id in list(self.observers.keys()): self.remove_project(...)
RemoveEach(m, ids) ==
    IF ids = {} THEN m
    ELSE LET project_id == CHOOSE id \in ids : TRUE
         IN  RemoveEach(remove_project(m, project_id), ids \ {project_id})

\* stop_all()
stop_all(m) == RemoveEach(m, DOMAIN m.observers)

NoManagerCall ==
    [op |-> "none", project_path |-> "", project_id |-> "", raised |-> "none",
     before |-> NewManager]

StartManager ==
    /\ manager = NewManager
    /\ manager_call = NoManagerCall

\* a call of add_project
AddProject ==
    /\ \E project_path \in ProjectPaths, project_id \in ProjectIds,
          start_fails \in BOOLEAN :
          LET r == add_project(manager, project_path, project_id, start_fails)
          IN  /\ Len(r.manager.threads) <= MaxObservers
              /\ manager' = r.manager
              /\ manager_call' =
                    [op |-> "add_project", project_path |-> project_path,
                     project_id |-> project_id, raised |-> r.raised,
                     before |-> manager]
    /\ UNCHANGED outsideManager

\* a call of remove_project
RemoveProject ==
    /\ \E project_id \in (ProjectIds \ {""}) \cup ExistingPaths :
          /\ manager' = remove_project(manager, project_id)
          /\ manager_call' =
                [op |-> "remove_project", project_path |-> "",
                 project_id |-> project_id, raised |-> "none",
                 before |-> manager]
    /\ UNCHANGED outsideManager

\* a call of stop_all
StopAll ==
    /\ manager' = stop_all(manager)
    /\ manager_call' =
          [op |-> "stop_all", project_path |-> "", project_id |-> "",
           raised |-> "none", before |-> manager]
    /\ UNCHANGED outsideManager

\* ------------------------------------------------------------------------
\* setup.setup_cursorfocus: the options that add projects
\* ------------------------------------------------------------------------
\* the lists given with --projects, --names and --intervals
ProjectsArgs ==
    { <<p>> : p \in {"proj", "/home/proj", "/home/gone"} }
       \cup { <<p, q>> : p, q \in {"proj", "/home/proj", "/home/other"} }
NamesArgs == { << >>, <<"Mine", "Mine">> }
IntervalsArgs == { << >>, <<30>> }

\* f"Project {i+1}", i counting from 0
DefaultName(i) == IF i = 0 THEN "Project 1" ELSE "Project 2"

\* f"{base_name} ({name_counts[base_name]})"
Suffixed(base_name, count) ==
    CASE base_name = "Mine" /\ count = 2 -> "Mine (2)"
      [] OTHER -> base_name

\* project_config for project_path, the entry of index i (from 0) of
\* args.projects
project_config(args, i) ==
    [name |-> IF i < Len(args.names) THEN args.names[i + 1] ELSE DefaultName(i),
     project_path |-> abspath(args.projects[i + 1]),
     update_interval |-> IF i < Len(args.intervals) THEN args.intervals[i + 1]
                         ELSE 60,
     max_depth |-> 3]

RECURSIVE ValidFrom(_, _)
\* the loop that validates the paths, from index i on
ValidFrom(args, i) ==
    IF i >= Len(args.projects) THEN << >>
    ELSE IF abspath(args.projects[i + 1]) \notin ExistingPaths
    THEN ValidFrom(args, i + 1)
    ELSE <<project_config(args, i)>> \o ValidFrom(args, i + 1)

RECURSIVE Renamed(_, _, _)
\* the loop that adds the suffixes: name_counts are the counts so far
Renamed(valid, i, name_counts) ==
    IF i > Len(valid) THEN valid
    ELSE LET base_name == valid[i].name
         IN  IF base_name \in DOMAIN name_counts
             THEN Renamed([valid EXCEPT ![i].name =
                              Suffixed(base_name, name_counts[base_name] + 1)],
                          i + 1,
                          [name_counts EXCEPT ![base_name] = @ + 1])
             ELSE Renamed(valid, i + 1,
                          [n \in DOMAIN name_counts \cup {base_name} |->
                              IF n = base_name THEN 1 ELSE name_counts[n]])

\* valid_projects after the check for duplicate names
valid_projects(args) ==
    LET valid == ValidFrom(args, 0)
    IN  IF Cardinality({valid[i].name : i \in DOMAIN valid}) # Len(valid)
        THEN Renamed(valid, 1, << >>)
        ELSE valid

\* (a slip: the project is appended without a look at the entries)
add_always(projects, project) == Append(projects, project)

\* existing.update(project) for the first entry with the project_path, or
\* config['projects'].append(project)
add_or_update(projects, project) ==
    IF \E k \in DOMAIN projects : projects[k].project_path = project.project_path
    THEN LET existing == CHOOSE k \in DOMAIN projects :
                            /\ projects[k].project_path = project.project_path
                            /\ \A j \in 1..(k-1) :
                                  projects[j].project_path # project.project_path
         IN  [projects EXCEPT ![existing] = project]
    ELSE Append(projects, project)

RECURSIVE AddProjects(_, _)
\* for project in valid_projects
AddProjects(projects, valid) ==
    IF valid = << >> THEN projects
    ELSE AddProjects(add_or_update(projects, Head(valid)), Tail(valid))

\* what scan_for_projects found: [name, path]
FoundLists ==
    LET found == { [name |-> "proj", path |-> "/home/proj"],
                   [name |-> "other", path |-> "/home/other"] }
    IN  { <<f>> : f \in found }
           \cup ({ <<f, g>> : f, g \in found } \ { <<f, f>> : f \in found })

\* the answers to 'Select projects to add': "all", "q" or numbers
Selections ==
    { [answer |-> "all", numbers |-> << >>], [answer |-> "q", numbers |-> << >>] }
       \cup { [answer |-> "numbers", numbers |-> n] :
                 n \in { <<1>>, <<2>>, <<1, 1>>, <<2, 1>>, <<3>> } }
NoSelection == [answer |-> "none", numbers |-> << >>]

\* the entry added for a found project, unless its path is configured
add_found(projects, project) ==
    IF \E k \in DOMAIN projects : projects[k].project_path = project.path
    THEN projects
    ELSE Append(projects,
                [name |-> project.name, project_path |-> project.path,
                 update_interval |-> 60, max_depth |-> 3])

RECURSIVE AddFound(_, _, _)
\* for idx in indices (or for project in found_projects)
AddFound(projects, found, indices) ==
    IF indices = << >> THEN projects
    ELSE AddFound(add_found(projects, found[Head(indices) + 1]), found,
                  Tail(indices))

\* the indices a selection names, << >> when the operation is cancelled
SelectedIndices(found, selection) ==
    IF selection.answer = "q" THEN << >>
    ELSE IF selection.answer = "all" THEN [i \in 1..Len(found) |-> i - 1]
    ELSE IF \E i \in DOMAIN selection.numbers :
               \/ selection.numbers[i] - 1 < 0
               \/ selection.numbers[i] - 1 >= Len(found)
    THEN << >>
    ELSE [i \in DOMAIN selection.numbers |-> selection.numbers[i] - 1]

NoSetupArgs == [projects |-> << >>, names |-> << >>, intervals |-> << >>]
NoSetupCall ==
    [option |-> "none", args |-> NoSetupArgs, found |-> << >>,
     selection |-> NoSelection, before |-> << >>]

StartSetup ==
    /\ config_projects \in
          { << >>,
            << [name |-> "Project 1", project_path |-> "/home/proj",
                update_interval |-> 60, max_depth |-> 3] >> }
    /\ setup_call = NoSetupCall

\* no setup run
IdleSetup ==
    /\ config_projects = << >>
    /\ setup_call = NoSetupCall

\* setup.py --projects ... [--names ...] [--intervals ...]
SetupProjects ==
    /\ \E projects \in ProjectsArgs, names \in NamesArgs,
          intervals \in IntervalsArgs :
          LET args == [projects |-> projects, names |-> names,
                       intervals |-> intervals]
              added == AddProjects(config_projects, valid_projects(args))
          IN  /\ Len(added) <= MaxProjects
              /\ config_projects' = added
              /\ setup_call' = [option |-> "projects", args |-> args,
                                found |-> << >>, selection |-> NoSelection,
                                before |-> config_projects]
    /\ UNCHANGED outsideSetup

\* setup.py --scan --auto-add
SetupScanAutoAdd ==
    /\ \E found \in FoundLists :
          /\ config_projects' =
                AddFound(config_projects, found, [i \in 1..Len(found) |-> i - 1])
          /\ setup_call' = [option |-> "auto_add", args |-> NoSetupArgs,
                            found |-> found, selection |-> NoSelection,
                            before |-> config_projects]
    /\ UNCHANGED outsideSetup

\* setup.py --scan, the projects selected at the prompt
SetupScanSelect ==
    /\ \E found \in FoundLists, selection \in Selections :
          /\ config_projects' =
                AddFound(config_projects, found,
                         SelectedIndices(found, selection))
          /\ setup_call' = [option |-> "select", args |-> NoSetupArgs,
                            found |-> found, selection |-> selection,
                            before |-> config_projects]
    /\ UNCHANGED outsideSetup

\* ------------------------------------------------------------------------
\* Specifications
\* ------------------------------------------------------------------------
Init ==
    /\ StartAnalyzer /\ IdleAlert /\ IdleReport /\ IdleDetect /\ IdleScan
    /\ IdleRules /\ StartWatch /\ IdleLoop /\ IdleGen /\ IdleUpdater
    /\ IdleTree /\ StartManager /\ IdleSetup

Next == FindDuplicates \/ AnalyzeFile

\* the analyzer on every text and file
Spec == Init /\ [][Next]_vars

InitAlert ==
    /\ IdleAnalyzer /\ StartAlert /\ IdleReport /\ IdleDetect /\ IdleScan
    /\ IdleRules /\ StartWatch /\ IdleLoop /\ IdleGen /\ IdleUpdater
    /\ IdleTree /\ StartManager /\ IdleSetup

NextAlert == GrowFile

\* the length check on a growing file
SpecAlert == InitAlert /\ [][NextAlert]_vars

InitReport ==
    /\ IdleAnalyzer /\ IdleAlert /\ StartReport /\ IdleDetect /\ IdleScan
    /\ IdleRules /\ StartWatch /\ IdleLoop /\ IdleGen /\ IdleUpdater
    /\ IdleTree /\ StartManager /\ IdleSetup

NextReport == GenerateFocus \/ Tick

\* the report generator called again and again on a project directory
SpecReport == InitReport /\ [][NextReport]_vars

InitDetect ==
    /\ IdleAnalyzer /\ IdleAlert /\ IdleReport /\ StartDetect /\ IdleScan
    /\ IdleRules /\ StartWatch /\ IdleLoop /\ IdleGen /\ IdleUpdater
    /\ IdleTree /\ StartManager /\ IdleSetup

NextDetect == Detect

\* the project type detector on every directory
SpecDetect == InitDetect /\ [][NextDetect]_vars

InitScan ==
    /\ IdleAnalyzer /\ IdleAlert /\ IdleReport /\ IdleDetect /\ StartScan
    /\ IdleRules /\ StartWatch /\ IdleLoop /\ IdleGen /\ IdleUpdater
    /\ IdleTree /\ StartManager /\ IdleSetup

NextScan == ScanForProjects \/ Wait \/ ChangeDisk

\* scan_for_projects called again and again as time passes
SpecScan == InitScan /\ [][NextScan]_vars

InitRules ==
    /\ IdleAnalyzer /\ IdleAlert /\ IdleReport /\ IdleDetect /\ IdleScan
    /\ StartRules /\ StartWatch /\ IdleLoop /\ IdleGen /\ IdleUpdater
    /\ IdleTree /\ StartManager /\ IdleSetup

NextRules == AnalyzersAnalyzeForRules \/ AnalyzeForRules

\* both definitions of the rules analyzer on every project directory
SpecRules == InitRules /\ [][NextRules]_vars

InitWatch ==
    /\ IdleAnalyzer /\ IdleAlert /\ IdleReport /\ IdleDetect /\ IdleScan
    /\ IdleRules /\ StartWatch /\ IdleLoop /\ IdleGen /\ IdleUpdater
    /\ IdleTree /\ StartManager /\ IdleSetup

NextWatch == OnModified \/ WatchWait

\* one watcher and the events delivered to it, one after the other
SpecWatch == InitWatch /\ [][NextWatch]_vars

InitLoop ==
    /\ IdleAnalyzer /\ IdleAlert /\ IdleReport /\ IdleDetect /\ IdleScan
    /\ IdleRules /\ StartWatch /\ StartLoop /\ IdleGen /\ IdleUpdater
    /\ IdleTree /\ StartManager /\ IdleSetup

NextLoop == MainCycle \/ ChangeEnv \/ ChangeTree

\* the loop of focus.py while the disk changes under it
SpecLoop == InitLoop /\ [][NextLoop]_vars

InitGen ==
    /\ IdleAnalyzer /\ IdleAlert /\ IdleReport /\ IdleDetect /\ IdleScan
    /\ IdleRules /\ StartWatch /\ IdleLoop /\ StartGen /\ IdleUpdater
    /\ IdleTree /\ StartManager /\ IdleSetup

NextGen == GenerateRules \/ GenTick

\* one rules generator called again and again with the same inputs
SpecGen == InitGen /\ [][NextGen]_vars

InitRegenerate ==
    /\ IdleAnalyzer /\ IdleAlert /\ IdleReport /\ IdleDetect /\ IdleScan
    /\ IdleRules /\ StartWatch /\ IdleLoop /\ StartRegenerate /\ IdleUpdater
    /\ IdleTree /\ StartManager /\ IdleSetup

NextRegenerate == RegenerateRules \/ GenTick

\* the rules file regenerated for watched directories as they are found
SpecRegenerate == InitRegenerate /\ [][NextRegenerate]_vars

InitChecks ==
    /\ IdleAnalyzer /\ IdleAlert /\ IdleReport /\ IdleDetect /\ IdleScan
    /\ IdleRules /\ StartWatch /\ IdleLoop /\ IdleGen /\ StartChecks
    /\ IdleTree /\ StartManager /\ IdleSetup

NextChecks == CheckForUpdates \/ UpdaterWait

\* check_for_updates called again and again as time passes
SpecChecks == InitChecks /\ [][NextChecks]_vars

InitUpdates ==
    /\ IdleAnalyzer /\ IdleAlert /\ IdleReport /\ IdleDetect /\ IdleScan
    /\ IdleRules /\ StartWatch /\ IdleLoop /\ IdleGen /\ StartUpdates
    /\ IdleTree /\ StartManager /\ IdleSetup

NextUpdates == InstallUpdate

\* update called again and again, failing at any stage
SpecUpdates == InitUpdates /\ [][NextUpdates]_vars

InitTree ==
    /\ IdleAnalyzer /\ IdleAlert /\ IdleReport /\ IdleDetect /\ IdleScan
    /\ IdleRules /\ StartWatch /\ IdleLoop /\ IdleGen /\ IdleUpdater
    /\ StartTree /\ StartManager /\ IdleSetup

NextTree == DoScan

\* _do_scan on every tree
SpecTree == InitTree /\ [][NextTree]_vars

InitManager ==
    /\ IdleAnalyzer /\ IdleAlert /\ IdleReport /\ IdleDetect /\ IdleScan
    /\ IdleRules /\ StartWatch /\ IdleLoop /\ IdleGen /\ IdleUpdater
    /\ IdleTree /\ StartManager /\ IdleSetup

NextManager == AddProject \/ RemoveProject \/ StopAll

\* the calls on a ProjectWatcherManager in any order
SpecManager == InitManager /\ [][NextManager]_vars

InitSetup ==
    /\ IdleAnalyzer /\ IdleAlert /\ IdleReport /\ IdleDetect /\ IdleScan
    /\ IdleRules /\ StartWatch /\ IdleLoop /\ IdleGen /\ IdleUpdater
    /\ IdleTree /\ StartManager /\ StartSetup

NextSetup == SetupProjects \/ SetupScanAutoAdd \/ SetupScanSelect

\* runs of setup.py that add projects, in any order
SpecSetup == InitSetup /\ [][NextSetup]_vars

\* ------------------------------------------------------------------------
\* Properties of the analyzer
\* ------------------------------------------------------------------------
\* the smallest element of a non-empty sequence of numbers
MinOf(seq) ==
    CHOOSE x \in {seq[i] : i \in DOMAIN seq} : \A i \in DOMAIN seq : x <= seq[i]

\* the entries analyze_file_content emitted for a name
EntriesOf(name) ==
    {i \in DOMAIN analysis.functions : analysis.functions[i][1] = name}

\* C1: a name recorded two or more times is in the duplicate map as
\* (earliest recorded line, number of recordings) and every entry emitted
\* for it carries the alert with that count and that line; a name recorded
\* once is not in the map and its entries carry no alert.
C1_DuplicateMap ==
    pc # "start" =>
      /\ DOMAIN duplicate_map \subseteq DOMAIN function_lines
      /\ \A n \in DOMAIN function_lines :
           LET recorded == function_lines[n]
           IN  IF Len(recorded) >= 2
               THEN /\ n \in DOMAIN duplicate_map
                    /\ duplicate_map[n] = <<MinOf(recorded), Len(recorded)>>
                    /\ \A i \in EntriesOf(n) :
                         analysis.functions[i][2].alert =
                            [count |-> Len(recorded),
                             first_line |-> MinOf(recorded)]
               ELSE /\ n \notin DOMAIN duplicate_map
                    /\ \A i \in EntriesOf(n) :
                         analysis.functions[i][2].alert = NoAlert

\* C1 witness: two declarations of one name on different lines, reported
C1_Witness ==
    /\ pc = "done"
    /\ \E n \in DOMAIN function_lines :
         /\ Len(function_lines[n]) = 2
         /\ function_lines[n][1] < function_lines[n][2]
         /\ \E i \in EntriesOf(n) :
              analysis.functions[i][2].alert.count = 2

\* C2: no emitted function name and no key of the duplicate map is a
\* stoplisted keyword, in any letter case.
C2_NoKeywordNames ==
    /\ \A n \in DOMAIN duplicate_map : Lower(n) \notin IGNORED_KEYWORDS
    /\ \A i \in DOMAIN analysis.functions :
         Lower(analysis.functions[i][1]) \notin IGNORED_KEYWORDS

\* C2 witness: a keyword in upper case stands twice where a pattern matches,
\* in a file whose other declarations are emitted
C2_Witness ==
    /\ pc = "done"
    /\ analysis.functions # << >>
    /\ LET ms == finditer(file_text, 1)
       IN  Cardinality({i \in DOMAIN ms : ms[i].name = "IF"}) >= 2

\* the matches of the second pass that are not stoplisted, in order: when
\* no exception ends the analysis, entry k is emitted for match k
KeptMatches ==
    SelectSeq(finditer(file_text, 1), LAMBDA m : IsFunctionName(m.name))

\* the lines above the line a match starts on
LinesAbove(m) == Split(SubSeq(file_text, 1, m.start - 2))

\* a line "* text" of a JSDoc block
IsJSDocText(line) ==
    Len(line) >= 2 /\ line[1] = "*" /\ line[2] \notin {"*", "@param"}

\* the JSDoc blocks that end right above match m: j is the line of "/**"
JSDocBlocksAbove(m) ==
    IF m.start < 3 \/ file_text[m.start - 1] # NL THEN {}
    ELSE LET above == LinesAbove(m)
             n == Len(above)
         IN  { j \in 1..(n-2) :
                 /\ above[j] = <<"/**">>
                 /\ above[n] = <<"*/">>
                 /\ \A t \in (j+1)..(n-1) : IsJSDocText(above[t])
                 /\ Len(Tail(above[j+1])) >= 5 }

\* the cleaned comment lines of the block that starts at line j, in order
JSDocWords(m, j) ==
    LET above == LinesAbove(m)
    IN  Flatten([t \in 1..(Len(above) - 1 - j) |-> Tail(above[j + t])])

\* C3 (as claimed): a declaration right below a JSDoc block whose first text
\* line has five words or more is described by the cleaned comment lines in
\* their order, without the content-based fallback.
C3_JSDocDescription ==
    (pc = "done" /\ Len(analysis.functions) = Len(KeptMatches)) =>
       \A k \in DOMAIN KeptMatches :
          \A j \in JSDocBlocksAbove(KeptMatches[k]) :
             analysis.functions[k][2].text = JSDocWords(KeptMatches[k], j)

\* the number of pieces text.split('\n') gives: one more than the newlines
Pieces(text) == 1 + Cardinality({i \in DOMAIN text : text[i] = NL})

C5_NeverRaises ==
    pc = "done" =>
      /\ analysis.raised = "none"
      /\ AnalyzeBody(analyzed_file, file_text).raised # "none"
           => (analysis.functions = << >> /\ analysis.line_count = 0)

\* C5 witness: the description synthesis fails in a file with two lines
C5_Witness ==
    /\ pc = "done"
    /\ AnalyzeBody(analyzed_file, file_text).raised = "re.error"
    /\ Pieces(file_text) >= 2
    /\ analysis = NoAnalysis

\* ------------------------------------------------------------------------
\* Properties of the length check
\* ------------------------------------------------------------------------
Tiers == {"warning", "critical", "severe"}

TierRank(level) ==
    CASE level = "severe" -> 3 [] level = "critical" -> 2
      [] level = "warning" -> 1 [] OTHER -> 0

\* the limit of the file under check
CheckedLimit == get_file_length_limit(length_standards, alert_ext)

\* the tiers whose threshold is at most line_count / limit
TiersMet(line_count) ==
    {t \in Tiers : length_thresholds[t] * CheckedLimit <= line_count * 10}

ButLast(content) == SubSeq(content, 1, Len(content) - 1)

\* C7: the texts that calls of generate_focus_content return on an
\* unchanged directory tree under one configuration are the same line by
\* line, but for the last line, which is the 'Last updated:' line.
C7_Idempotent ==
    \A i \in DOMAIN reports : \A j \in DOMAIN reports :
        /\ reports[i][Len(reports[i])].kind = "updated"
        /\ ButLast(reports[i]) = ButLast(reports[j])

\* C7 witness: two calls a minute apart over a project in which two files
\* or more are reported, with lines and duplicate functions counted
C7_Witness ==
    /\ Len(reports) >= 2
    /\ reports[1][Len(reports[1])] # reports[2][Len(reports[2])]
    /\ metrics.total_files >= 2
    /\ metrics.total_lines > 0
    /\ metrics.duplicate_functions > 0

\* the lines of the key-components tree of a text
TreeLines(content) == SelectSeq(content, LAMBDA line : line.kind = "tree")

\* lines i < j of a tree are entries of one directory
Siblings(tree, i, j) ==
    /\ i < j
    /\ tree[i].prefix = tree[j].prefix
    /\ \A k \in i..j : Len(tree[k].prefix) >= Len(tree[i].prefix)

\* C8 (as claimed): in the rendered tree the directories of a level come
\* before its files, directories and files are each in ascending order of
\* name, and no entry is under more than max_depth directories.
C8_DirectoriesFirst ==
    \A r \in DOMAIN reports :
        LET tree == TreeLines(reports[r])
        IN  /\ \A i \in DOMAIN tree :
                   Len(tree[i].prefix) <= focus_config.max_depth
            /\ \A i \in DOMAIN tree : \A j \in DOMAIN tree :
                   Siblings(tree, i, j) =>
                      /\ tree[j].icon = "dir " => tree[i].icon = "dir "
                      /\ tree[i].icon = tree[j].icon =>
                            Rank(tree[i].name) < Rank(tree[j].name)

\* the files of the project that the walk reaches and that have an
\* extension of the non-code set
NonCodeFiles ==
    LET paths == WalkedFiles(project_files, listdir_order)
    IN  { paths[i] : i \in { k \in DOMAIN paths :
              splitext(paths[k][Len(paths[k])]) \in NON_CODE_EXTENSIONS } }

\* C9 (as claimed): a file with an extension of the non-code set is counted
\* in total_files, and its lines are in total_lines and in lines_by_type
\* for its extension.
C9_NonCodeCounted ==
    reports # << >> =>
        /\ metrics.total_files >= Cardinality(NonCodeFiles)
        /\ \A p \in NonCodeFiles :
              LET ext == splitext(p[Len(p)])
              IN  /\ metrics.total_lines >= LineCount(FileText(p))
                  /\ ext \in DOMAIN metrics.lines_by_type
                  /\ metrics.lines_by_type[ext] >= LineCount(FileText(p))

\* the paths with a name on the way that should_ignore_file excludes
IgnoredPaths ==
    { p \in project_files : \E i \in DOMAIN p : should_ignore_file(p[i]) }

\* C10 (as claimed): what has a name of the ignore set or a name beginning
\* with a dot, and what is beneath it, is in no report: not in the tree,
\* not in the per-file section, and the metrics are those of the project
\* without it.
C10_IgnoredExcluded ==
    \A r \in DOMAIN reports :
        /\ \A p \in IgnoredPaths : \A i \in DOMAIN reports[r] :
              /\ reports[r][i].kind = "tree" => reports[r][i].name # p[Len(p)]
              /\ reports[r][i].kind = "file" => reports[r][i].rel_path # p
        /\ metrics = generate_focus_content(project_files \ IgnoredPaths,
                         package_json, listdir_order, focus_config,
                         now).metrics

\* C11 (as claimed): over a project whose package.json is not valid JSON
\* no call of generate_focus_content leaves an exception to its caller, and
\* each call returns a whole text, from the title with the default name to
\* the 'Last updated:' line.
C11_MalformedManifest ==
    package_json = "malformed" =>
        /\ focus_error = "none"
        /\ \A r \in DOMAIN reports :
              /\ reports[r][1] =
                     [kind |-> "title", name |-> ProjectPath[Len(ProjectPath)]]
              /\ reports[r][Len(reports[r])].kind = "updated"

\* ------------------------------------------------------------------------
\* Properties of the project type detector
\* ------------------------------------------------------------------------
\* the rules with an indicator among the entries of the directory
MatchingRules ==
    { i \in DOMAIN PROJECT_TYPES : RuleMatches(PROJECT_TYPES[i], detect_dir.names) }

\* a call was made on a directory that is there and was listed
DetectedListed == detected # NotDetected /\ detect_dir.listing = "ok"

\* C12 (as claimed): when rules of the table match the entries of the
\* directory, the type returned is that of the matching rule that comes
\* first in the table.
C12_FirstRuleWins ==
    (DetectedListed /\ MatchingRules # {}) =>
        detected.type =
            PROJECT_TYPES[CHOOSE i \in MatchingRules :
                             \A j \in MatchingRules : i <= j].type

\* C13: when exactly one rule of the table matches the entries of the
\* directory, the call returns the type name and the description of that
\* rule, and raises nothing.
C13_SingleRule ==
    (DetectedListed /\ Cardinality(MatchingRules) = 1) =>
        \A i \in MatchingRules :
            /\ detected.raised = "none"
            /\ detected.type = PROJECT_TYPES[i].type
            /\ detected.description = PROJECT_TYPES[i].description

\* C13 witness: a directory that holds go.mod and nothing else is
\* detected as 'go', 'Go Project'
C13_Witness ==
    /\ detect_dir = [listing |-> "ok", names |-> {"go.mod"}]
    /\ detected.type = "go"
    /\ detected.description = "Go Project"

\* the result for a directory that is missing or not to be listed
GenericUnknown ==
    /\ detected.raised = "none"
    /\ detected.type = "generic"
    /\ detected.language = "unknown"
    /\ detected.framework = "none"

\* C14 (as claimed): when no rule matches, the type is 'generic' whatever
\* the directory holds; when the directory is missing or cannot be listed,
\* the result is 'generic', 'unknown', 'none' and nothing is raised.
C14_GenericDefault ==
    detected # NotDetected =>
        /\ (detect_dir.listing = "ok" /\ MatchingRules = {}) =>
               detected.type = "generic"
        /\ detect_dir.listing # "ok" => GenericUnknown

\* C14 (amended): when no rule matches, the type is 'generic_dev' if
\* README.md, .gitignore, LICENSE or CHANGELOG.md is among the entries
\* and 'generic' if none is, with the description 'Generic Project' in
\* both cases; when the directory is missing or cannot be listed, the
\* result is 'generic', 'unknown', 'none' and nothing is raised.
C14_GenericOrDev ==
    detected # NotDetected =>
        /\ (detect_dir.listing = "ok" /\ MatchingRules = {}) =>
               /\ detected.raised = "none"
               /\ detected.description = "Generic Project"
               /\ detected.type =
                      IF detect_dir.names \cap
                            {"README.md", ".gitignore", "LICENSE", "CHANGELOG.md"} # {}
                      THEN "generic_dev" ELSE "generic"
        /\ detect_dir.listing # "ok" => GenericUnknown

\* C14 witness: a directory of a README.md, a licence and a source file
\* is detected as 'generic_dev'
C14_Witness ==
    /\ detect_dir = [listing |-> "ok",
                     names |-> {"README.md", "LICENSE", "util.py"}]
    /\ detected.type = "generic_dev"
    /\ detected.language = "python"

\* ------------------------------------------------------------------------
\* Properties of the scan cache
\* ------------------------------------------------------------------------
\* the step is a call of scan_for_projects
ScanCalled == scan_call'.number = scan_call.number + 1

\* the key of the call the step makes
CalledKey == cache_key(scan_call'.root_path, scan_call'.max_depth)

\* the seconds since the entry under the key of the call was stored
EntryAge == clock - scan_cache[CalledKey].cache_time

\* C15, a call with use_cache=True less than 300 seconds after the entry
\* under its key was stored: the stored results are returned, _do_scan is
\* not run and the cache is as it was
C15_Hit ==
    (scan_call'.use_cache /\ CalledKey \in DOMAIN scan_cache
        /\ EntryAge < 300) =>
       /\ scan_call'.returned = scan_cache[CalledKey].results
       /\ scans' = scans
       /\ scan_cache' = scan_cache

\* C15, a call with use_cache=True 300 seconds or more after the entry
\* under its key was stored, or with no entry under its key: _do_scan is
\* run, its results are returned and stored under the key with the time of
\* the call, and the other entries are as they were
C15_Expired ==
    (scan_call'.use_cache
        /\ (CalledKey \in DOMAIN scan_cache => EntryAge >= 300)) =>
       /\ scans' = scans + 1
       /\ scan_call'.returned =
              do_scan(scan_call'.root_path, scan_call'.max_depth, disk)
       /\ CalledKey \in DOMAIN scan_cache'
       /\ scan_cache'[CalledKey] =
              [cache_time |-> clock, results |-> scan_call'.returned]
       /\ \A k \in DOMAIN scan_cache \ {CalledKey} :
              k \in DOMAIN scan_cache' /\ scan_cache'[k] = scan_cache[k]

\* C15, a call with use_cache=False: _do_scan is run and its results
\* returned whatever the cache holds, and the cache is as it was
C15_Bypass ==
    ~scan_call'.use_cache =>
       /\ scans' = scans + 1
       /\ scan_call'.returned =
              do_scan(scan_call'.root_path, scan_call'.max_depth, disk)
       /\ scan_cache' = scan_cache

\* C15: scan_for_projects keeps one entry per (root_path, max_depth); a
\* call with use_cache=True less than 300 seconds after the entry of its
\* key was stored returns the stored results without a scan; one made 300
\* seconds or more after it scans and replaces the entry and its time; a
\* call with use_cache=False scans and leaves the cache alone. Two calls
\* with different (root_path, max_depth) never share an entry.
C15_ScanCache ==
    [][ScanCalled => C15_Hit /\ C15_Expired /\ C15_Bypass]_vars

\* C15 witness: of three calls one was answered from the cache, and the
\* last one, made with use_cache=True 599 seconds or more after the first,
\* has run _do_scan and stored the results under its key with its time
C15_Witness ==
    /\ scan_call.number = 3
    /\ scans = 2
    /\ clock >= 2 * CacheSeconds - 1
    /\ scan_call.use_cache
    /\ cache_key(scan_call.root_path, scan_call.max_depth) \in DOMAIN scan_cache
    /\ scan_cache[cache_key(scan_call.root_path, scan_call.max_depth)].cache_time
          = clock

\* ------------------------------------------------------------------------
\* Properties of the rules analyzer
\* ------------------------------------------------------------------------
\* C16 (as claimed): a call of analyze_project_for_rules, in either
\* definition, leaves no exception to its caller and returns a mapping
\* with name, version, language, framework and type, whatever the state of
\* the project directory and of its manifest.
C16_NeverPropagates ==
    rules_info.definition # "none" =>
        /\ rules_info.result.raised = "none"
        /\ DOMAIN rules_info.result.info =
              {"name", "version", "language", "framework", "type"}

\* ------------------------------------------------------------------------
\* Properties of the rules watcher
\* ------------------------------------------------------------------------
\* C17: every call of the rules generator that a watcher made was for an
\* event that is not a directory event and whose file name is one of the
\* trigger names or ends in .csproj; two calls in a row are 5 seconds or
\* more apart; and no on_modified left an exception, the regeneration
\* failing or not.
C17_Debounced ==
    /\ \A i \in DOMAIN invocations :
          /\ ~invocations[i].event.is_directory
          /\ invocations[i].event.src_path[Len(invocations[i].event.src_path)]
                \in {"Focus.md", "package.json", "requirements.txt",
                     "CMakeLists.txt", ".csproj", "composer.json",
                     "build.gradle", "pom.xml", "App.csproj"}
    /\ \A i \in DOMAIN invocations :
          i > 1 => invocations[i].time - invocations[i - 1].time >= 5
    /\ watch_error = "none"

\* C17 witness: the watcher called the generator at some time, let events
\* of the four seconds after it pass, and called it again exactly five
\* seconds later, after a regeneration that failed
C17_Witness ==
    /\ Len(invocations) >= 2
    /\ invocations[2].time = invocations[1].time + 5
    /\ invocations[1].outcome = "OSError"
    /\ invocations[2].event.src_path = <<"proj", "app", "App.csproj">>

\* ------------------------------------------------------------------------
\* Properties of the loop of focus.py
\* ------------------------------------------------------------------------
\* C18 (as claimed): while the project tree has not changed, the cycles
\* of the loop have written the Focus file once at most.
C18_WrittenOnce == tree_changes = 0 => focus_writes <= 1

\* C19 (as claimed): no cycle ends the loop: main() returns without
\* raising whatever it meets (a configuration that does not load, a
\* missing project directory, a Focus file that cannot be written).
C19_NoTerminalState == loop_env.logs = "writable" => loop_error = "none"

\* ------------------------------------------------------------------------
\* Properties of the rules generator
\* ------------------------------------------------------------------------
\* a document with its last_updated blanked
ButLastUpdated(doc) == [doc EXCEPT !.last_updated = 0]

\* C20: the documents that calls of generate_rules_file by one
\* RulesGenerator write, with the same project_info on an unchanged
\* project, are equal but for last_updated; the 'prefer' list of a later
\* document is no longer than that of an earlier one.
C20_SameRules ==
    \A i \in DOMAIN rules_files : \A j \in DOMAIN rules_files :
        /\ ButLastUpdated(rules_files[i]) = ButLastUpdated(rules_files[j])
        /\ Len(rules_files[i].prefer) = Len(rules_files[j].prefer)

\* C20 witness: three documents written, the last a minute after the
\* first, for a react project in python over the template file, so that
\* framework and language rules were added to 'prefer' in every call
C20_Witness ==
    /\ Len(rules_files) = 3
    /\ rules_files[1].last_updated # rules_files[3].last_updated
    /\ gen_inputs.template = "file"
    /\ Len(rules_files[3].prefer) = 5

\* ------------------------------------------------------------------------
\* The updater
\* ------------------------------------------------------------------------
\* the version text a tag names
TagVersion(tag) == LStrip(tag, {"v"})

\* every component of a version text is a number
Numeric(version) == \A i \in DOMAIN version : version[i] \in DOMAIN IntOf

\* version a is later than version b: they agree up to a component where a
\* is greater or where b ends
VersionGreater(a, b) ==
    \E k \in DOMAIN a :
       /\ \A j \in 1..(k-1) : j <= Len(b) /\ IntOf[a[j]] = IntOf[b[j]]
       /\ (k > Len(b) \/ IntOf[a[k]] > IntOf[b[k]])

C22_FailureLeavesUntouched ==
    [][update_returned' = "False" =>
          /\ installed' = installed
          /\ version_txt' = version_txt
          /\ ~update_zip'
          /\ ~temp_dir']_vars

\* ------------------------------------------------------------------------
\* The backward walk of parse_comments
\* ------------------------------------------------------------------------
\* a line that is neither a comment line nor blank
IsCodeLine(line) == line # << >> /\ Head(line) \notin {"/**", "*", "*/", "//"}

\* the lines of a block below its last code line
BelowCode(block) ==
    LET code == {i \in DOMAIN block : IsCodeLine(block[i])}
    IN  IF code = {} THEN block
        ELSE SubSeq(block, (CHOOSE i \in code : \A j \in code : j <= i) + 1,
                    Len(block))

\* C23 (as claimed): the description a declaration gets from the comments
\* above it holds no text from above the nearest code line: it is what the
\* walk gives on the lines below that code line alone, also when a line
\* starting with "/**" lies between the code line and the declaration.
C23_StopsAtCode ==
    (pc = "done" /\ Len(analysis.functions) = Len(KeptMatches)) =>
       \A k \in DOMAIN KeptMatches :
          LET block == CommentBlock(file_text, KeptMatches[k].start)
          IN  ~UsesFallback(parse_comments(block)) =>
                 analysis.functions[k][2].text
                    = Flatten(parse_comments(BelowCode(block)))

\* ------------------------------------------------------------------------
\* The rules added for the detected language and framework
\* ------------------------------------------------------------------------
\* the rules a document has after those of its template
AddedRules(doc) ==
    SubSeq(doc.prefer, Len(load_template(gen_inputs, << >>).prefer) + 1,
           Len(doc.prefer))

\* C24 (as claimed): in every document written for a watched directory, the
\* rules added to 'prefer' are a non-empty list for the detected framework,
\* when it is not 'none', followed by a non-empty list for the detected
\* language, when it is not 'unknown'.
C24_RulesForEveryValue ==
    \A i \in DOMAIN rules_files :
       LET doc == rules_files[i]
       IN  \E k \in 0..Len(AddedRules(doc)) :
              /\ doc.project.framework # "none" => k > 0
              /\ doc.project.language # "unknown" => k < Len(AddedRules(doc))

\* ------------------------------------------------------------------------
\* The directories a scan reports
\* ------------------------------------------------------------------------
\* the type detect_project_type gives a directory of the tree
TypeOf(path) == detect_project_type(dir_tree[path]).type

\* the paths of the projects the scan returned
Reported == { tree_scan.projects[i].path : i \in DOMAIN tree_scan.projects }

\* the directories above a path, the root included
Ancestors(path) == { SubSeq(path, 1, n) : n \in 0..(Len(path) - 1) }

\* C25 (as claimed): a scan reports only directories that
\* detect_project_type classifies as other than generic, and it reports
\* every such directory that lies within max_depth below generic
\* directories only.
C25_ExactlyNonGeneric ==
    tree_scan.done =>
       /\ \A path \in Reported : TypeOf(path) # "generic"
       /\ \A path \in TreePaths :
             ( /\ TypeOf(path) # "generic"
               /\ Len(path) <= tree_depth + 1
               /\ \A above \in Ancestors(path) :
                     /\ TypeOf(above) = "generic"
                     /\ dir_tree[above].listing = "ok"
               /\ \A i \in DOMAIN path : path[i] \notin scan_ignored_dirs )
             => path \in Reported

\* ------------------------------------------------------------------------
\* The watcher manager
\* ------------------------------------------------------------------------
\* the id add_project uses for the last call
CalledId ==
    IF manager_call.project_id # "" THEN manager_call.project_id
    ELSE abspath(manager_call.project_path)

\* both maps are as they were before the last call
MapsUnchanged ==
    /\ manager.observers = manager_call.before.observers
    /\ manager.watchers = manager_call.before.watchers

\* C26: observers and watchers have the same keys, and every key has an
\* observer that was started and not stopped; add_project for an id that is
\* present and remove_project for an id that is absent change neither map;
\* add_project on a path that does not exist raises ValueError and changes
\* neither map; stop_all leaves both maps empty.
C26_ManagerMaps ==
    /\ DOMAIN manager.observers = DOMAIN manager.watchers
    /\ \A id \in DOMAIN manager.observers :
          /\ manager.observers[id] \in DOMAIN manager.threads
          /\ manager.threads[manager.observers[id]].state = "started"
    /\ (manager_call.op = "add_project"
          /\ CalledId \in DOMAIN manager_call.before.observers)
          => MapsUnchanged
    /\ (manager_call.op = "remove_project"
          /\ manager_call.project_id \notin DOMAIN manager_call.before.observers)
          => MapsUnchanged
    /\ (manager_call.op = "add_project"
          /\ manager_call.project_path \notin ExistingPaths)
          => (manager_call.raised = "ValueError" /\ MapsUnchanged)
    /\ manager_call.op = "stop_all"
          => (manager.observers = << >> /\ manager.watchers = << >>)

\* C26 (witness): one project is left watched after another was removed.
C26_Witness ==
    /\ manager_call.op = "remove_project"
    /\ manager_call.project_id \in DOMAIN manager_call.before.observers
    /\ DOMAIN manager.observers # {}
    /\ Len(manager.threads) = MaxObservers

\* the observers that run
Running == { i \in DOMAIN manager.threads : manager.threads[i].state = "started" }

\* C28 (as claimed): no directory is watched by two running observers at
\* once, whatever project_id the calls of add_project were given.
C28_OneObserverPerDirectory ==
    \A i, j \in Running :
       abspath(manager.threads[i].path) = abspath(manager.threads[j].path)
          => i = j

\* ------------------------------------------------------------------------
\* Dropped events of the rules watcher
\* ------------------------------------------------------------------------
\* what a step that handles an event may do to last_update and to the
\* calls of the generator
C27_Step ==
    /\ (last_event' # last_event /\ last_event'.verdict = "debounced")
          => (last_update' = last_update /\ invocations' = invocations)
    /\ invocations' # invocations
          => /\ last_event'.verdict = "accepted"
             /\ last_event'.time = watch_clock
             /\ should_process_file(last_event'.event.src_path)
             /\ watch_clock - last_update >= update_delay
             /\ last_update' = watch_clock
             /\ Len(invocations') = Len(invocations) + 1
             /\ SubSeq(invocations', 1, Len(invocations)) = invocations
             /\ invocations'[Len(invocations')].time = watch_clock
             /\ invocations'[Len(invocations')].event = last_event'.event

\* C27: a trigger-file event that on_modified rejects for coming less than
\* update_delay after the last accepted one leaves last_update and the
\* calls of the generator as they were, and the generator is called only in
\* the step that accepts an event, at the time of that event, with
\* last_update set to that time whether the regeneration fails or not.
C27_DroppedNotDeferred ==
    /\ [](Len(invocations) > 0 =>
             last_update = invocations[Len(invocations)].time)
    /\ [][C27_Step]_vars

\* C27 (witness): a trigger-file event was rejected four seconds after an
\* accepted one whose regeneration failed.
C27_Witness ==
    /\ last_event.verdict = "debounced"
    /\ Len(invocations) = 1
    /\ invocations[1].outcome = "OSError"
    /\ last_event.time = invocations[1].time + update_delay - 1
    /\ last_update = invocations[1].time

\* ------------------------------------------------------------------------
\* The projects of the configuration
\* ------------------------------------------------------------------------
\* the entries given with --projects for a path, after validation
GivenFor(project_path) ==
    LET valid == valid_projects(setup_call.args)
    IN  { valid[k] : k \in { j \in DOMAIN valid :
                                valid[j].project_path = project_path } }

\* C29: no two entries of the configuration have the same project_path;
\* every entry that was there before a run is still at its place with its
\* path; a run with --scan leaves it as it was, and a run with --projects
\* leaves it as it was unless its path is given, and then makes it one of
\* the entries given for that path.
C29_DistinctPaths ==
    /\ \A i, j \in DOMAIN config_projects :
          config_projects[i].project_path = config_projects[j].project_path
             => i = j
    /\ Len(setup_call.before) <= Len(config_projects)
    /\ \A i \in DOMAIN setup_call.before :
          /\ config_projects[i].project_path = setup_call.before[i].project_path
          /\ setup_call.option \in {"auto_add", "select"}
                => config_projects[i] = setup_call.before[i]
          /\ setup_call.option = "projects"
                => IF GivenFor(setup_call.before[i].project_path) = {}
                   THEN config_projects[i] = setup_call.before[i]
                   ELSE config_projects[i]
                           \in GivenFor(setup_call.before[i].project_path)

\* C29 (witness): a run with --projects gave a configured path twice, under
\* two names of the directory, and its entry was updated in place, after a
\* scan had found it and left it alone.
C29_Witness ==
    /\ setup_call.option = "projects"
    /\ setup_call.args.projects = <<"proj", "/home/proj">>
    /\ Len(config_projects) = 2
    /\ Len(setup_call.before) = 2
    /\ setup_call.before[2].project_path = "/home/proj"
    /\ setup_call.before[2].name = "proj"
    /\ config_projects[2].name = "Mine (2)"
    /\ config_projects[1] = setup_call.before[1]

\* ------------------------------------------------------------------------
\* The interval between update checks
\* ------------------------------------------------------------------------
\* a call that found a last-check file with a time in it
Readable(call) == call.before.kind = "time"

\* the call came less than update_interval after the recorded time
TooEarly(call) ==
    call.time - strptime(call.before.seconds) < update_interval * TicksPerSecond

\* a call that comes too early returns None, asks nothing and leaves the
\* record; a call that asks has recorded the time of the call, as the file
\* holds it, before asking
ThrottledByRecord ==
    \A i \in DOMAIN checks :
       /\ (Readable(checks[i]) /\ TooEarly(checks[i]))
             => /\ ~checks[i].contacted
                /\ checks[i].result = ReturnedNone
                /\ checks[i].after = checks[i].before
       /\ checks[i].contacted
             => checks[i].after =
                   [kind |-> "time", seconds |-> checks[i].time \div TicksPerSecond]

\* C30 (as claimed): two calls that find a readable last-check file and
\* ask the remote are update_interval or more apart, a call less than update_interval after the recorded time
\* asks nothing, returns None and leaves the record, and a call that asks
\* has recorded its time.
C30_AtLeastIntervalApart ==
    /\ \A i, j \in DOMAIN checks :
          (i < j /\ checks[i].contacted /\ checks[j].contacted
             /\ Readable(checks[i]) /\ Readable(checks[j]))
             => checks[j].time - checks[i].time
                   >= update_interval * TicksPerSecond
    /\ ThrottledByRecord

\* C30 (amended): the times recorded by two calls that find a readable
\* last-check file and ask the remote are update_interval or more apart, and the calls themselves more than
\* update_interval less one second; the rest as claimed.
C30_RecordedIntervalApart ==
    /\ \A i, j \in DOMAIN checks :
          (i < j /\ checks[i].contacted /\ checks[j].contacted
             /\ Readable(checks[i]) /\ Readable(checks[j]))
             => /\ checks[j].after.seconds - checks[i].after.seconds
                      >= update_interval
                /\ checks[j].time - checks[i].time
                      > (update_interval - 1) * TicksPerSecond
    /\ ThrottledByRecord

\* C30 (witness): two calls asked the remote one tick less than
\* update_interval apart, and a call after them came too early and did not.
C30_Witness ==
    \E i, j, k \in DOMAIN checks :
       /\ i < j /\ j < k
       /\ checks[i].contacted /\ checks[j].contacted /\ ~checks[k].contacted
       /\ checks[j].time - checks[i].time = update_interval * TicksPerSecond - 1
       /\ Readable(checks[i]) /\ Readable(checks[j]) /\ Readable(checks[k])

====
